---------------------------- MODULE Spec2Model ----------------------------
(***************************************************************************)
(* Model of the OMO configuration manager                                  *)
(* (plugins/omo-config-manager/src/core.ts and utils.ts).                  *)
(*                                                                         *)
(* JavaScript strings are TLA+ strings and are processed character by      *)
(* character (Len, SubSeq, \o).  JavaScript objects are ordered sequences  *)
(* of key/value records (insertion order), values are tagged records.      *)
(* Numbers that carry a fraction (temperature) are held in hundredths.     *)
(***************************************************************************)
EXTENDS Integers, Sequences, FiniteSets, TLC

(***************************************************************************)
(* Characters and the regular-expression primitives used by core.ts.       *)
(***************************************************************************)
LowerStr == "abcdefghijklmnopqrstuvwxyz"
UpperStr == "ABCDEFGHIJKLMNOPQRSTUVWXYZ"
DigitStr == "0123456789"

Ch(s, i) == IF i >= 1 /\ i <= Len(s) THEN SubSeq(s, i, i) ELSE ""

CharsOf(s) == {SubSeq(s, i, i) : i \in 1..Len(s)}

Lower == CharsOf(LowerStr)
Upper == CharsOf(UpperStr)
Digit == CharsOf(DigitStr)

\* [a-z0-9] under the i flag
AlnumChars == Lower \cup Upper \cup Digit
\* [a-z0-9_-] under the i flag
KeyChars == AlnumChars \cup {"_", "-"}
\* \w
WordChars == AlnumChars \cup {"_"}
\* [A-Za-z0-9._/-]
ModelChars == AlnumChars \cup {".", "_", "/", "-"}
\* \s
SpaceChars == {" ", "\t", "\n", "\r"}

IndexIn(c, str) == IF \E i \in 1..Len(str) : SubSeq(str, i, i) = c
                   THEN CHOOSE i \in 1..Len(str) : SubSeq(str, i, i) = c
                   ELSE 0

LowerChar(c) == IF c \in Upper THEN Ch(LowerStr, IndexIn(c, UpperStr)) ELSE c

RECURSIVE toLowerCase(_)
toLowerCase(s) == IF s = "" THEN ""
                  ELSE LowerChar(SubSeq(s, 1, 1)) \o toLowerCase(SubSeq(s, 2, Len(s)))

\* \b between the characters i-1 and i of s
WordBoundary(s, i) == (Ch(s, i - 1) \in WordChars) # (Ch(s, i) \in WordChars)

\* the literal lit (lower case) at position p of s, under the i flag
LitAt(s, p, lit) == /\ p >= 1
                    /\ p + Len(lit) - 1 <= Len(s)
                    /\ toLowerCase(SubSeq(s, p, p + Len(lit) - 1)) = lit

\* the literal lit at position p of s, case-sensitive
ExactAt(s, p, lit) == /\ p >= 1
                      /\ p + Len(lit) - 1 <= Len(s)
                      /\ SubSeq(s, p, p + Len(lit) - 1) = lit

\* \bword\b at position p
WordAt(s, p, word) == /\ LitAt(s, p, word)
                      /\ WordBoundary(s, p)
                      /\ WordBoundary(s, p + Len(word))

\* the first position at or after p that holds no character of cls:
\* where a greedy cls* that starts at p ends
RECURSIVE SkipClass(_, _, _)
SkipClass(s, p, cls) == IF p <= Len(s) /\ Ch(s, p) \in cls
                        THEN SkipClass(s, p + 1, cls)
                        ELSE p

\* the least element of a non-empty set of positions: the leftmost match
MinOf(S) == CHOOSE x \in S : \A y \in S : x <= y
MaxOf(S) == CHOOSE x \in S : \A y \in S : x >= y


(***************************************************************************)
(* Optional values (undefined | v) are sequences of length 0 or 1.         *)
(***************************************************************************)
None == <<>>
Some(v) == <<v>>
IsSome(o) == Len(o) > 0
\* a ?? b
Coalesce(a, b) == IF IsSome(a) THEN a ELSE b

Min2(a, b) == IF a <= b THEN a ELSE b

(***************************************************************************)
(* core.ts: key safety and parameter extraction.                           *)
(***************************************************************************)
MaxKeyLen == 64

FORBIDDEN_KEYS == {"__proto__", "prototype", "constructor"}

\* /^[a-z0-9][a-z0-9_-]{0,63}$/i
KeyPattern(key) ==
    /\ Len(key) >= 1
    /\ Len(key) <= MaxKeyLen
    /\ Ch(key, 1) \in AlnumChars
    /\ \A i \in 1..Len(key) : Ch(key, i) \in KeyChars

\* the key check without the reserved keys
NoForbiddenCheck(key) == key # "" /\ KeyPattern(key)

isSafeConfigKey(key) ==
    /\ key # ""
    /\ toLowerCase(key) \notin FORBIDDEN_KEYS
    /\ KeyPattern(key)

\* ([a-z0-9][a-z0-9_-]{0,63})\b at position j: the length of the greedy
\* capture, 0 when there is none
KeyCaptureLen(s, j) ==
    LET e == SkipClass(s, j, KeyChars)
        Ls == {L \in 1..Min2(e - j, MaxKeyLen) : WordBoundary(s, j + L)}
    IN IF Ch(s, j) \in AlnumChars /\ Ls # {} THEN MaxOf(Ls) ELSE 0

KeyCaptureAt(s, j) ==
    IF KeyCaptureLen(s, j) > 0
    THEN Some(SubSeq(s, j, j + KeyCaptureLen(s, j) - 1))
    ELSE None

\* \bword\b\s+(?:named|called)?\s*([a-z0-9][a-z0-9_-]{0,63})\b tried at p
KeyAfterWordAt(s, p, word) ==
    LET q == p + Len(word)
        j == SkipClass(s, q, SpaceChars)
        kw == IF LitAt(s, j, "named") THEN "named"
              ELSE IF LitAt(s, j, "called") THEN "called" ELSE ""
        taken == IF kw = "" THEN None
                 ELSE KeyCaptureAt(s, SkipClass(s, j + Len(kw), SpaceChars))
    IN IF WordAt(s, p, word) /\ j > q
       THEN Coalesce(taken, KeyCaptureAt(s, j))
       ELSE None

extractKeyAfterWord(request, word) ==
    LET P == {p \in 1..Len(request) : IsSome(KeyAfterWordAt(request, p, word))}
    IN IF P = {} THEN None ELSE KeyAfterWordAt(request, MinOf(P), word)

\* \b([a-z0-9][a-z0-9_-]{0,63})\s+word\b tried at p: the capture length
KeyBeforeWordLen(s, p, word) ==
    LET e == SkipClass(s, p, KeyChars)
        Ls == {L \in 1..Min2(e - p, MaxKeyLen) :
                 LET j == SkipClass(s, p + L, SpaceChars)
                 IN /\ j > p + L
                    /\ LitAt(s, j, word)
                    /\ WordBoundary(s, j + Len(word))}
    IN IF WordBoundary(s, p) /\ Ch(s, p) \in AlnumChars /\ Ls # {}
       THEN MaxOf(Ls) ELSE 0

extractKeyBeforeWord(request, word) ==
    LET P == {p \in 1..Len(request) : KeyBeforeWordLen(request, p, word) > 0}
    IN IF P = {} THEN None
       ELSE LET p == MinOf(P)
            IN Some(SubSeq(request, p, p + KeyBeforeWordLen(request, p, word) - 1))

\* the position after \s*(?:to\s*)? started at q, the optional group taken
AfterTo(s, q) ==
    LET j == SkipClass(s, q, SpaceChars)
    IN IF LitAt(s, j, "to") THEN Some(SkipClass(s, j + 2, SpaceChars)) ELSE None

\* the places where the value may start after \bword\b\s*(?:to\s*)?, in the
\* order the matcher tries them: the optional group taken, then skipped
ValueStarts(s, q) ==
    IF IsSome(AfterTo(s, q))
    THEN <<AfterTo(s, q)[1], SkipClass(s, q, SpaceChars)>>
    ELSE <<SkipClass(s, q, SpaceChars)>>

\* the first defined result of f over a sequence of places
RECURSIVE FirstSome(_, _)
FirstSome(f, places) ==
    IF places = <<>> THEN None
    ELSE IF IsSome(f[Head(places)]) THEN f[Head(places)]
    ELSE FirstSome(f, Tail(places))

RECURSIVE ParseDigits(_)
ParseDigits(d) ==
    IF d = "" THEN 0
    ELSE 10 * ParseDigits(SubSeq(d, 1, Len(d) - 1)) + (IndexIn(Ch(d, Len(d)), DigitStr) - 1)

\* Number.parseFloat of digits[.digits], in hundredths (two decimals kept)
ParseFloat(text) ==
    LET dot == IndexIn(".", text)
        ip == IF dot = 0 THEN text ELSE SubSeq(text, 1, dot - 1)
        fr == IF dot = 0 THEN "" ELSE SubSeq(text, dot + 1, Len(text))
        f2 == SubSeq(fr \o "00", 1, 2)
    IN 100 * ParseDigits(ip) + ParseDigits(f2)

\* ([0-9]+(?:\.[0-9]+)?)\b at position j
NumberCaptureAt(s, j) ==
    LET d == SkipClass(s, j, Digit)
        f == SkipClass(s, d + 1, Digit)
    IN IF d = j THEN None
       ELSE IF Ch(s, d) = "." /\ f > d + 1 /\ WordBoundary(s, f)
            THEN Some(SubSeq(s, j, f - 1))
       ELSE IF WordBoundary(s, d) THEN Some(SubSeq(s, j, d - 1))
       ELSE None

\* /\btemperature\b\s*(?:to\s*)?([0-9]+(?:\.[0-9]+)?)\b/i tried at p
TemperatureAt(s, p) ==
    IF WordAt(s, p, "temperature")
    THEN FirstSome([j \in 1..(Len(s) + 1) |-> NumberCaptureAt(s, j)],
                   ValueStarts(s, p + Len("temperature")))
    ELSE None

extractTemperature(request) ==
    LET P == {p \in 1..Len(request) : IsSome(TemperatureAt(request, p))}
    IN IF P = {} THEN None
       ELSE Some(ParseFloat(TemperatureAt(request, MinOf(P))[1]))

\* (?:"([^"]+)"|'([^']+)') at position j
QuotedAt(s, j) ==
    LET quote == Ch(s, j)
        close == SkipClass(s, j + 1, CharsOf(s) \ {quote})
    IN IF quote \in {"\"", "'"} /\ close <= Len(s) /\ close > j + 1
       THEN Some(SubSeq(s, j + 1, close - 1))
       ELSE None

\* ([A-Za-z0-9._/-]+)\b at position j
BareModelAt(s, j) ==
    LET e == SkipClass(s, j, ModelChars)
        Ls == {L \in 1..(e - j) : WordBoundary(s, j + L)}
    IN IF Ls # {} THEN Some(SubSeq(s, j, j + MaxOf(Ls) - 1)) ELSE None

RECURSIVE trim(_)
trim(s) ==
    IF s # "" /\ Ch(s, 1) \in SpaceChars THEN trim(SubSeq(s, 2, Len(s)))
    ELSE IF s # "" /\ Ch(s, Len(s)) \in SpaceChars THEN trim(SubSeq(s, 1, Len(s) - 1))
    ELSE s

extractModel(request) ==
    LET quotedAt(p) == IF WordAt(request, p, "model")
                       THEN FirstSome([j \in 1..(Len(request) + 1) |-> QuotedAt(request, j)],
                                      ValueStarts(request, p + Len("model")))
                       ELSE None
        bareAt(p) == IF WordAt(request, p, "model")
                     THEN FirstSome([j \in 1..(Len(request) + 1) |-> BareModelAt(request, j)],
                                    ValueStarts(request, p + Len("model")))
                     ELSE None
        PQ == {p \in 1..Len(request) : IsSome(quotedAt(p))}
        PB == {p \in 1..Len(request) : IsSome(bareAt(p))}
        raw == IF PQ # {} THEN quotedAt(MinOf(PQ))
               ELSE IF PB # {} THEN bareAt(MinOf(PB))
               ELSE None
    IN IF IsSome(raw) THEN Some(trim(raw[1])) ELSE None

\* \bfield\b\s*[:=]?\s*(?:"([^"]+)"|'([^']+)') under the i flag
extractQuotedField(request, field) ==
    LET at(p) == LET j == SkipClass(request, p + Len(field), SpaceChars)
                     k == IF Ch(request, j) \in {":", "="}
                          THEN SkipClass(request, j + 1, SpaceChars)
                          ELSE j
                 IN IF WordAt(request, p, field) THEN QuotedAt(request, k) ELSE None
        P == {p \in 1..Len(request) : IsSome(at(p))}
    IN IF P = {} THEN None ELSE Some(trim(at(MinOf(P))[1]))

\* /\b(\d{1,3})\b/ then Number.parseInt
extractFirstInt(request) ==
    LET at(p) == LET d == SkipClass(request, p, Digit)
                 IN IF /\ WordBoundary(request, p)
                       /\ d > p
                       /\ d - p <= 3
                       /\ WordBoundary(request, d)
                    THEN Some(SubSeq(request, p, d - 1))
                    ELSE None
        P == {p \in 1..Len(request) : IsSome(at(p))}
    IN IF P = {} THEN None ELSE Some(ParseDigits(at(MinOf(P))[1]))

KNOWN_HOOKS ==
    << "todo-continuation-enforcer", "context-window-monitor", "session-recovery",
       "session-notification", "comment-checker", "grep-output-truncator",
       "tool-output-truncator", "directory-agents-injector",
       "directory-readme-injector", "empty-task-response-detector", "think-mode",
       "anthropic-context-window-limit-recovery", "rules-injector",
       "background-notification", "auto-update-checker", "startup-toast",
       "keyword-detector", "agent-usage-reminder", "non-interactive-env",
       "interactive-bash-session", "compaction-context-injector",
       "thinking-block-validator", "claude-code-hooks", "ralph-loop",
       "preemptive-compaction" >>

KnownHookSet == {KNOWN_HOOKS[i] : i \in 1..Len(KNOWN_HOOKS)}

\* String.prototype.includes
includes(s, sub) == \E p \in 1..(Len(s) + 1) : ExactAt(s, p, sub)

extractHookName(request) ==
    LET direct == extractKeyAfterWord(request, "hook")
        lower == toLowerCase(request)
        found == {i \in 1..Len(KNOWN_HOOKS) : includes(lower, KNOWN_HOOKS[i])}
    IN IF IsSome(direct) THEN direct
       ELSE IF found # {} THEN Some(KNOWN_HOOKS[MinOf(found)])
       ELSE None

(***************************************************************************)
(* core.ts: parseAction.                                                   *)
(***************************************************************************)
\* a hasWord that looks at words[0] only
hasFirstWordIn(lowerRequest, word) == ExactAt(lowerRequest, 1, word)

\* words.some(w => w === word || w.startsWith(word)) over
\* lowerRequest.split(/\s+/): a token of the request starts with word
hasWordIn(lowerRequest, word) ==
    \E p \in 1..Len(lowerRequest) :
        /\ ExactAt(lowerRequest, p, word)
        /\ (p = 1 \/ Ch(lowerRequest, p - 1) \in SpaceChars)

parseAction(request) ==
    LET lowerRequest == toLowerCase(request)
        hasWord(word) == hasWordIn(lowerRequest, word)
        listing == hasWord("list") \/ hasWord("show") \/ hasWord("what")
        changing == hasWord("modify") \/ hasWord("change") \/ hasWord("edit") \/ hasWord("update")
    IN IF listing /\ hasWord("agent") THEN "list-agents"
       ELSE IF listing /\ hasWord("categor") THEN "list-categories"
       ELSE IF listing /\ hasWord("skill") THEN "list-skills"
       ELSE IF (hasWord("list") \/ hasWord("show")) /\ (hasWord("model") \/ hasWord("oc-model"))
            THEN "list-oc-models"
       ELSE IF hasWord("update") \/ (hasWord("check") /\ hasWord("update")) THEN "check-updates"
       ELSE IF hasWord("diagnostic") \/ (hasWord("run") /\ hasWord("diagnostic"))
            THEN "run-diagnostics"
       ELSE IF hasWord("valid") \/ (hasWord("check") /\ ~hasWord("update")) THEN "run-diagnostics"
       ELSE IF hasWord("backup") THEN "backup-configs"
       ELSE IF hasWord("restore") THEN "restore-backup"
       ELSE IF hasWord("compare") \/ hasWord("diff") THEN "compare-backup"
       ELSE IF hasWord("permission") \/ hasWord("perm") THEN "show-permissions"
       ELSE IF hasWord("add") /\ hasWord("agent") THEN "add-agent"
       ELSE IF changing /\ hasWord("agent") THEN "modify-agent"
       ELSE IF hasWord("add") /\ hasWord("categor") THEN "add-category"
       ELSE IF changing /\ hasWord("categor") THEN "modify-category"
       ELSE IF hasWord("disable") /\ hasWord("hook") THEN "disable-hook"
       ELSE IF hasWord("enable") /\ hasWord("hook") THEN "enable-hook"
       ELSE "unknown"

(***************************************************************************)
(* JavaScript values and objects.                                          *)
(***************************************************************************)
Undefined == [t |-> "undefined"]
JStr(s) == [t |-> "string", s |-> s]
\* a number, in hundredths
JNum(n) == [t |-> "number", n |-> n]
JBool(b) == [t |-> "boolean", b |-> b]
\* a nested value the core does not look into (permission, tools, mcp, ...)
JOpaque(id) == [t |-> "opaque", id |-> id]
\* an object: o is its ordered sequence of [k, v] properties
JObject(o) == [t |-> "object", o |-> o]
\* an array of strings
JArray(a) == [t |-> "array", a |-> a]

EmptyObj == <<>>

ObjKeys(o) == {o[i].k : i \in 1..Len(o)}
ObjHas(o, key) == \E i \in 1..Len(o) : o[i].k = key
\* own property read; undefined when there is none
ObjGet(o, key) ==
    IF ObjHas(o, key) THEN o[CHOOSE i \in 1..Len(o) : o[i].k = key].v ELSE Undefined
\* o[key] = v: an existing key keeps its place, a new key goes last
ObjSet(o, key, v) ==
    IF ObjHas(o, key)
    THEN [i \in 1..Len(o) |-> IF o[i].k = key THEN [k |-> key, v |-> v] ELSE o[i]]
    ELSE Append(o, [k |-> key, v |-> v])
\* {...a, ...b}
RECURSIVE ObjSpread(_, _)
ObjSpread(a, b) ==
    IF b = <<>> THEN a ELSE ObjSpread(ObjSet(a, Head(b).k, Head(b).v), Tail(b))

\* JSON.parse(JSON.stringify(o)) of the properties o: a property whose
\* value is undefined is not written, nested objects likewise
RECURSIVE JsonRoundTrip(_)
JsonRoundTrip(o) ==
    IF o = <<>> THEN <<>>
    ELSE IF Head(o).v = Undefined THEN JsonRoundTrip(Tail(o))
    ELSE IF Head(o).v.t = "object"
         THEN <<[k |-> Head(o).k, v |-> JObject(JsonRoundTrip(Head(o).v.o))]>>
              \o JsonRoundTrip(Tail(o))
    ELSE <<Head(o)>> \o JsonRoundTrip(Tail(o))

(***************************************************************************)
(* core.ts: ActionOptions, inferOptionsFromRequest, mergeOptions.          *)
(* The four scalar options are optionals; agentData and categoryData are   *)
(* optionals of objects.                                                   *)
(***************************************************************************)
NoOptions ==
    [backupIndex |-> None, agentName |-> None, categoryName |-> None,
     hookName |-> None, agentData |-> None, categoryData |-> None]

\* if (value !== undefined) data[key] = value
SetIfSome(o, key, opt, tag) ==
    IF ~IsSome(opt) THEN o
    ELSE ObjSet(o, key, IF tag = "number" THEN JNum(opt[1]) ELSE JStr(opt[1]))

\* if (name) opts.name = name
IfTruthy(opt) == IF IsSome(opt) /\ opt[1] # "" THEN opt ELSE None

inferOptionsFromRequest(action, request) ==
    LET agentName ==
            Coalesce(extractKeyAfterWord(request, "agent"),
            Coalesce(extractKeyAfterWord(request, "agents"),
            Coalesce(extractKeyBeforeWord(request, "agent"),
                     extractKeyBeforeWord(request, "agents"))))
        categoryName ==
            Coalesce(extractKeyAfterWord(request, "category"),
            Coalesce(extractKeyAfterWord(request, "categories"),
            Coalesce(extractKeyBeforeWord(request, "category"),
                     extractKeyBeforeWord(request, "categories"))))
        hookName == extractHookName(request)
        backupIndex == extractFirstInt(request)
        model == extractModel(request)
        temperature == extractTemperature(request)
        description == extractQuotedField(request, "description")
        prompt_append ==
            Coalesce(extractQuotedField(request, "prompt_append"),
            Coalesce(extractQuotedField(request, "prompt"),
                     extractQuotedField(request, "instructions")))
        lower == toLowerCase(request)
        hasHook == \E p \in 1..Len(lower) : WordAt(lower, p, "hook")
        wantsDisableAgent ==
            /\ action = "modify-agent"
            /\ \E p \in 1..Len(lower) : WordAt(lower, p, "disable")
            /\ ~hasHook
        wantsEnableAgent ==
            /\ action = "modify-agent"
            /\ \E p \in 1..Len(lower) : WordAt(lower, p, "enable")
            /\ ~hasHook
        a1 == SetIfSome(EmptyObj, "model", model, "string")
        a2 == SetIfSome(a1, "temperature", temperature, "number")
        a3 == SetIfSome(a2, "description", description, "string")
        a4 == SetIfSome(a3, "prompt_append", prompt_append, "string")
        a5 == IF wantsDisableAgent THEN ObjSet(a4, "disable", JBool(TRUE)) ELSE a4
        agentData == IF wantsEnableAgent THEN ObjSet(a5, "disable", JBool(FALSE)) ELSE a5
        c1 == SetIfSome(EmptyObj, "model", model, "string")
        c2 == SetIfSome(c1, "temperature", temperature, "number")
        categoryData == SetIfSome(c2, "prompt_append", prompt_append, "string")
    IN [backupIndex |-> backupIndex,
        agentName |-> IfTruthy(agentName),
        categoryName |-> IfTruthy(categoryName),
        hookName |-> IfTruthy(hookName),
        agentData |-> IF Len(agentData) > 0 THEN Some(agentData) ELSE None,
        categoryData |-> IF Len(categoryData) > 0 THEN Some(categoryData) ELSE None]

\* { ...a, ...b, agentData: {...a.agentData, ...b.agentData},
\*   categoryData: {...a.categoryData, ...b.categoryData} }
mergeOptions(a, b) ==
    LET data(o) == IF IsSome(o) THEN o[1] ELSE EmptyObj
    IN [backupIndex |-> Coalesce(b.backupIndex, a.backupIndex),
        agentName |-> Coalesce(b.agentName, a.agentName),
        categoryName |-> Coalesce(b.categoryName, a.categoryName),
        hookName |-> Coalesce(b.hookName, a.hookName),
        agentData |-> Some(ObjSpread(data(a.agentData), data(b.agentData))),
        categoryData |-> Some(ObjSpread(data(a.categoryData), data(b.categoryData)))]

(***************************************************************************)
(* utils.ts: the two live config files and the backup archive.             *)
(* A file holds a JSON document (the properties of its root object) or     *)
(* text that does not parse.  A backup is a file of the archive directory. *)
(***************************************************************************)
KeepBackups == 5
SweepLimit == 100
ListLimit == 5

\* UTF-16 code unit order of the characters that occur in file names
CharOrder == "-./" \o DigitStr \o UpperStr \o "_" \o LowerStr

CharRank == [c \in CharsOf(CharOrder) |-> IndexIn(c, CharOrder)]

\* the length of the longest common prefix of a and b, known to lie in
\* lo..hi, found by halving
RECURSIVE CommonPrefix(_, _, _, _)
CommonPrefix(a, b, lo, hi) ==
    IF lo >= hi THEN lo
    ELSE LET mid == (lo + hi + 1) \div 2
         IN IF SubSeq(a, lo + 1, mid) = SubSeq(b, lo + 1, mid)
            THEN CommonPrefix(a, b, mid, hi)
            ELSE CommonPrefix(a, b, lo, mid - 1)

\* a < b as Array.prototype.sort compares strings: by the first character
\* that differs, a proper prefix first
StrLess(a, b) ==
    LET d == CommonPrefix(a, b, 0, Min2(Len(a), Len(b))) + 1
    IN IF d > Len(a) \/ d > Len(b) THEN Len(a) < Len(b)
       ELSE CharRank[Ch(a, d)] < CharRank[Ch(b, d)]

startsWith(s, prefix) == ExactAt(s, 1, prefix)

\* backups.sort().reverse() of a set of distinct names
SortDescending(names) ==
    LET above == [n \in names |-> Cardinality({m \in names : StrLess(n, m)})]
    IN [i \in 1..Cardinality(names) |-> CHOOSE n \in names : above[n] = i - 1]

ArchiveNames(arch) == {f.name : f \in arch}

IsBackupName(f) == startsWith(f, "omo-backup-") \/ startsWith(f, "opencode-backup-")

\* listBackups(limit) on an archive directory that can be read
listBackups(arch, limit) ==
    LET backups == SortDescending({f \in ArchiveNames(arch) : IsBackupName(f)})
    IN SubSeq(backups, 1, Min2(limit, Len(backups)))

ArchiveFile(arch, name) == CHOOSE f \in arch : f.name = name

\* a file of that name is created or overwritten
PutFile(arch, name, valid, doc) ==
    {f \in arch : f.name # name} \cup {[name |-> name, valid |-> valid, doc |-> doc]}

RemoveFiles(arch, names) == {f \in arch : f.name \notin names}

\* two decimal digits
Pad2(n) == Ch(DigitStr, ((n \div 10) % 10) + 1) \o Ch(DigitStr, (n % 10) + 1)

\* ticks of the clock in a day
DayTicks == 3

\* createTimestamp at the instant now (ticks of UTC) on a host whose local
\* time is tz ticks ahead of UTC: the date part is taken from toISOString
\* (UTC), the time part from toTimeString (local time).  Both parts are
\* fixed-width digit strings.
createTimestamp(now, tz) ==
    LET date == now \div DayTicks
        time == (now + tz + DayTicks) % DayTicks
    IN Pad2(date) \o "-" \o Pad2(time)

\* the places where an I/O call of a run may fail
FaultPoints ==
    {"load", "mkdir", "copyOmo", "placeholderOmo", "copyOc", "placeholderOc",
     "readdir", "unlink", "readBackup", "writeConfig", "writeCut"}

\* path.extname(configPath) || '.json'
ExtOf(file) == IF file.ext # "" THEN file.ext ELSE ".json"

\* fs.copyFile(src, dst).catch(() => writeJsonFile(dst, {})): the archive
\* after it, or None when the fallback write throws as well
CopyOrPlaceholder(arch, file, name, copyFails, placeholderFails) ==
    IF file.exists /\ ~copyFails
    THEN Some(PutFile(arch, name, file.valid, file.doc))
    ELSE IF ~placeholderFails THEN Some(PutFile(arch, name, TRUE, EmptyObj))
    ELSE None

\* the retention sweep of backupConfigsInternal
Sweep(arch, unlinkFails) ==
    LET allBackups == listBackups(arch, SweepLimit)
        toDelete == {allBackups[i] : i \in (KeepBackups + 1)..Len(allBackups)}
    IN IF Len(allBackups) > KeepBackups /\ ~unlinkFails
       THEN RemoveFiles(arch, toDelete)
       ELSE arch

\* backupConfigsInternal: [ok, archive after it, the two names, and the files
\* it created in order]
backupConfigsInternal(omo, oc, arch, now, tz, faults) ==
    LET timestamp == createTimestamp(now, tz)
        omoBackup == "omo-backup-" \o timestamp \o ExtOf(omo)
        ocBackup == "opencode-backup-" \o timestamp \o ExtOf(oc)
        failed(a, made) == [ok |-> FALSE, archive |-> a, omoBackup |-> omoBackup,
                            ocBackup |-> ocBackup, created |-> made]
        a1 == CopyOrPlaceholder(arch, omo, omoBackup,
                                "copyOmo" \in faults, "placeholderOmo" \in faults)
        a2 == CopyOrPlaceholder(a1[1], oc, ocBackup,
                                "copyOc" \in faults, "placeholderOc" \in faults)
    IN IF "mkdir" \in faults THEN failed(arch, <<>>)
       ELSE IF ~IsSome(a1) THEN failed(arch, <<>>)
       ELSE IF ~IsSome(a2) THEN failed(a1[1], <<omoBackup>>)
       ELSE IF "readdir" \in faults THEN failed(a2[1], <<omoBackup, ocBackup>>)
       ELSE [ok |-> TRUE, archive |-> Sweep(a2[1], "unlink" \in faults),
             omoBackup |-> omoBackup, ocBackup |-> ocBackup,
             created |-> <<omoBackup, ocBackup>>]

\* a readJsonFile that takes contents that do not parse for {} as well
readJsonFileOrDefault(file) ==
    IF ~file.exists \/ ~file.valid THEN Some(EmptyObj) ELSE Some(file.doc)

\* readJsonFile(path, {}): the document, {} for a missing file, or None
\* when it throws (contents that do not parse)
readJsonFile(file) ==
    IF ~file.exists THEN Some(EmptyObj)
    ELSE IF ~file.valid THEN None
    ELSE Some(file.doc)

\* writeJsonFile(path, data) on a live config file
writeJsonFile(file, data) ==
    [exists |-> TRUE, ext |-> file.ext, valid |-> TRUE, doc |-> JsonRoundTrip(data)]

\* a config file whose contents do not parse
BrokenFile(ext) == [exists |-> TRUE, ext |-> ext, valid |-> FALSE, doc |-> EmptyObj]

\* the faults that make writeJsonFile throw: "writeConfig" before the file
\* is opened, "writeCut" after fs.writeFile has opened and truncated it
WriteFaults == {"writeConfig", "writeCut"}

\* the live config file after writeJsonFile(path, data) was called
Written(file, data, faults) ==
    IF "writeConfig" \in faults THEN file
    ELSE IF "writeCut" \in faults THEN BrokenFile(file.ext)
    ELSE writeJsonFile(file, data)

(***************************************************************************)
(* core.ts: executeAction.  A run works on a context                       *)
(*   [omo, oc, archive, proto, now, tz, faults]                            *)
(* and yields [omo, oc, archive, proto, report, events, created]:          *)
(* the files after the run, the report string (as a record of what it      *)
(* says), the I/O steps of the run in order, and the backups it created.   *)
(***************************************************************************)
\* the functions every object inherits from Object.prototype under a name
\* that passes the key pattern; proto holds the properties assigned to them
ObjectPrototypeMembers ==
    <<"constructor", "hasOwnProperty", "isPrototypeOf", "propertyIsEnumerable",
      "toLocaleString", "toString", "valueOf">>

InitialPrototype ==
    [i \in 1..Len(ObjectPrototypeMembers) |->
        [k |-> ObjectPrototypeMembers[i], v |-> JObject(EmptyObj)]]

\* obj[key]: an own property, else an inherited one, else undefined
PropertyRead(obj, key, proto) ==
    IF ObjHas(obj, key) THEN ObjGet(obj, key) ELSE ObjGet(proto, key)

\* !value
Falsy(v) ==
    \/ v.t = "undefined"
    \/ (v.t = "string" /\ v.s = "")
    \/ (v.t = "number" /\ v.n = 0)
    \/ (v.t = "boolean" /\ ~v.b)

\* config.section || {}
Section(doc, section) ==
    IF ObjHas(doc, section) /\ ~Falsy(ObjGet(doc, section))
    THEN ObjGet(doc, section).o ELSE EmptyObj

\* config.disabled_hooks || []
DisabledHooks(doc) ==
    IF ObjHas(doc, "disabled_hooks") THEN ObjGet(doc, "disabled_hooks").a ELSE <<>>

JRedacted(len) == [t |-> "redacted", len |-> len]

\* redactForDisplay without its `len > 0` test: an empty prompt gets the tag too
redactEvenEmpty(obj) ==
    IF ObjHas(obj, "prompt_append") /\ ObjGet(obj, "prompt_append").t = "string"
    THEN ObjSet(obj, "prompt_append", JRedacted(Len(ObjGet(obj, "prompt_append").s)))
    ELSE obj

redactForDisplay(obj) ==
    IF ObjHas(obj, "prompt_append") /\ ObjGet(obj, "prompt_append").t = "string"
    THEN ObjSet(obj, "prompt_append",
                IF Len(ObjGet(obj, "prompt_append").s) > 0
                THEN JRedacted(Len(ObjGet(obj, "prompt_append").s))
                ELSE JStr(""))
    ELSE obj

\* value !== undefined && (value < 0 || value > 1), the value in hundredths
TemperatureOutOfRange(v) == v.t = "number" /\ (v.n < 0 \/ v.n > 100)

Report(status, code, data) == [status |-> status, code |-> code, data |-> data]

\* the I/O steps backupConfigsInternal adds to the run
BackupEvents(ctx, b) ==
    <<"backup">>
    \o (IF "mkdir" \notin ctx.faults /\ ctx.omo.exists /\ "copyOmo" \in ctx.faults
        THEN <<"copy-failed:omo">> ELSE <<>>)
    \o (IF "mkdir" \notin ctx.faults /\ Len(b.created) = 0
        THEN <<"placeholder-failed:omo">> ELSE <<>>)
    \o (IF "mkdir" \notin ctx.faults /\ Len(b.created) >= 1 /\ ctx.oc.exists /\ "copyOc" \in ctx.faults
        THEN <<"copy-failed:oc">> ELSE <<>>)
    \o (IF "mkdir" \notin ctx.faults /\ Len(b.created) = 1
        THEN <<"placeholder-failed:oc">> ELSE <<>>)
    \o (IF b.ok THEN <<"backup-ok">> ELSE <<"backup-failed">>)

\* a run that backs up before it decides to end
UnchangedAfterBackup(ctx, report) ==
    LET b == backupConfigsInternal(ctx.omo, ctx.oc, ctx.archive, ctx.now, ctx.tz, ctx.faults)
    IN [omo |-> ctx.omo, oc |-> ctx.oc, archive |-> b.archive, proto |-> ctx.proto,
        report |-> report, events |-> BackupEvents(ctx, b), created |-> b.created]

\* a run that ends by saving the OMO config as it loaded it
UnchangedButSaved(ctx, report) ==
    [omo |-> IF IsSome(readJsonFile(ctx.omo))
             THEN writeJsonFile(ctx.omo, readJsonFile(ctx.omo)[1]) ELSE ctx.omo,
     oc |-> ctx.oc, archive |-> ctx.archive, proto |-> ctx.proto,
     report |-> report, events |-> <<>>, created |-> <<>>]

\* a run that ends before it touches a file
Unchanged(ctx, report) ==
    [omo |-> ctx.omo, oc |-> ctx.oc, archive |-> ctx.archive, proto |-> ctx.proto,
     report |-> report, events |-> <<>>, created |-> <<>>]

\* the tail of a handler that leaves the backup out
WriteOmoWithoutBackup(ctx, doc, proto, title, shown) ==
    LET wrote == ctx.faults \cap WriteFaults = {}
    IN [omo |-> Written(ctx.omo, doc, ctx.faults),
        oc |-> ctx.oc,
        archive |-> ctx.archive,
        proto |-> proto,
        report |-> IF wrote THEN Report("success", title, shown)
                   ELSE Report("error", "exception", <<>>),
        events |-> IF wrote THEN <<"write:omo">> ELSE <<"write-failed:omo">>,
        created |-> <<>>]

\* the common tail of the handlers that change the OMO config: back up,
\* then write the changed document and report success, or report the error
\* the write threw
BackupThenWriteOmo(ctx, doc, proto, title, shown) ==
    LET b == backupConfigsInternal(ctx.omo, ctx.oc, ctx.archive, ctx.now, ctx.tz, ctx.faults)
        wrote == ctx.faults \cap WriteFaults = {}
    IN [omo |-> Written(ctx.omo, doc, ctx.faults),
        oc |-> ctx.oc,
        archive |-> b.archive,
        proto |-> proto,
        report |-> IF wrote THEN Report("success", title, shown)
                   ELSE Report("error", "exception", <<>>),
        events |-> BackupEvents(ctx, b)
                   \o (IF wrote THEN <<"write:omo">> ELSE <<"write-failed:omo">>),
        created |-> b.created]

\* config[section][name] = entry, creating the section when it is missing
WithEntry(doc, section, name, entry) ==
    ObjSet(doc, section, JObject(ObjSet(Section(doc, section), name, JObject(entry))))

\* target.f = data.f for every field, defined or not
RECURSIVE AssignAll(_, _, _)
AssignAll(target, data, fields) ==
    IF fields = <<>> THEN target
    ELSE AssignAll(ObjSet(target, Head(fields), ObjGet(data, Head(fields))), data, Tail(fields))

\* if (data.f !== undefined) target.f = data.f, for the fields in order
RECURSIVE AssignDefined(_, _, _)
AssignDefined(target, data, fields) ==
    IF fields = <<>> THEN target
    ELSE LET f == Head(fields)
             next == IF ObjGet(data, f) # Undefined
                     THEN ObjSet(target, f, ObjGet(data, f)) ELSE target
         IN AssignDefined(next, data, Tail(fields))

\* { f: data.f, ... } for the fields in order (undefined where data has none)
RECURSIVE Literal(_, _)
Literal(data, fields) ==
    IF fields = <<>> THEN <<>>
    ELSE <<[k |-> Head(fields), v |-> ObjGet(data, Head(fields))]>> \o Literal(data, Tail(fields))

AgentFields == <<"model", "temperature", "prompt_append", "permission", "description", "disable">>
CategoryFields == <<"model", "temperature", "top_p", "maxTokens", "prompt_append">>

\* an add that assigns the supplied fields onto the entry already there,
\* as modify does, instead of replacing the entry
AddEntityOnto(ctx, doc, section, fields, nameOpt, dataOpt, title) ==
    LET name == nameOpt[1]
        data == IF IsSome(dataOpt) THEN dataOpt[1] ELSE EmptyObj
        entries == Section(doc, section)
        entry == AssignDefined(IF ObjHas(entries, name) THEN ObjGet(entries, name).o
                               ELSE EmptyObj, data, fields)
    IN IF ~IsSome(nameOpt) \/ name = ""
       THEN Unchanged(ctx, Report("help", title, ObjKeys(Section(doc, section))))
       ELSE IF ~isSafeConfigKey(name)
       THEN Unchanged(ctx, Report("error", "invalid-name", name))
       ELSE IF Falsy(ObjGet(data, "model"))
       THEN Unchanged(ctx, Report("error", "missing-model", name))
       ELSE IF TemperatureOutOfRange(ObjGet(data, "temperature"))
       THEN Unchanged(ctx, Report("error", "temperature", name))
       ELSE BackupThenWriteOmo(ctx, WithEntry(doc, section, name, entry), ctx.proto,
                               title, JsonRoundTrip(redactForDisplay(entry)))

\* case 'add-agent' and case 'add-category'
AddEntity(ctx, doc, section, fields, nameOpt, dataOpt, title) ==
    LET name == nameOpt[1]
        data == IF IsSome(dataOpt) THEN dataOpt[1] ELSE EmptyObj
        entry == Literal(data, fields)
    IN IF ~IsSome(nameOpt) \/ name = ""
       THEN Unchanged(ctx, Report("help", title, ObjKeys(Section(doc, section))))
       ELSE IF ~isSafeConfigKey(name)
       THEN Unchanged(ctx, Report("error", "invalid-name", name))
       ELSE IF Falsy(ObjGet(data, "model"))
       THEN Unchanged(ctx, Report("error", "missing-model", name))
       ELSE IF TemperatureOutOfRange(ObjGet(data, "temperature"))
       THEN Unchanged(ctx, Report("error", "temperature", name))
       ELSE BackupThenWriteOmo(ctx, WithEntry(doc, section, name, entry), ctx.proto,
                               title, JsonRoundTrip(redactForDisplay(entry)))

\* case 'modify-agent' and case 'modify-category'
ModifyEntity(ctx, doc, section, fields, nameOpt, dataOpt, title) ==
    LET name == nameOpt[1]
        data == IF IsSome(dataOpt) THEN dataOpt[1] ELSE EmptyObj
        entries == Section(doc, section)
        found == PropertyRead(entries, name, ctx.proto)
        changed == AssignDefined(found.o, data, fields)
        own == ObjHas(entries, name)
    IN IF ~IsSome(nameOpt) \/ name = ""
       THEN Unchanged(ctx, Report("help", title, ObjKeys(entries)))
       ELSE IF ~isSafeConfigKey(name)
       THEN Unchanged(ctx, Report("error", "invalid-name", name))
       ELSE IF TemperatureOutOfRange(ObjGet(data, "temperature"))
       THEN Unchanged(ctx, Report("error", "temperature", name))
       ELSE IF ~ObjHas(doc, section) \/ Falsy(ObjGet(doc, section)) \/ Falsy(found)
       THEN Unchanged(ctx, Report("error", "not-found", name))
       ELSE BackupThenWriteOmo(ctx,
                IF own THEN WithEntry(doc, section, name, changed) ELSE doc,
                IF own THEN ctx.proto ELSE ObjSet(ctx.proto, name, JObject(changed)),
                title, JsonRoundTrip(redactForDisplay(changed)))

SeqToSet(q) == {q[i] : i \in 1..Len(q)}

\* Array.prototype.filter(h => h !== hookName)
RECURSIVE Without(_, _)
Without(q, x) ==
    IF q = <<>> THEN <<>>
    ELSE IF Head(q) = x THEN Without(Tail(q), x)
    ELSE <<Head(q)>> \o Without(Tail(q), x)

\* a disable-hook that never looks at the hooks already disabled
DisableHookAgain(ctx, doc, hookOpt) ==
    LET hookName == hookOpt[1]
        hooks == DisabledHooks(doc)
    IN IF ~IsSome(hookOpt) \/ hookName = ""
       THEN Unchanged(ctx, Report("help", "disable-hook", KnownHookSet))
       ELSE IF hookName \notin KnownHookSet
       THEN Unchanged(ctx, Report("error", "unknown-hook", hookName))
       ELSE BackupThenWriteOmo(ctx,
                ObjSet(doc, "disabled_hooks", JArray(Append(hooks, hookName))),
                ctx.proto, "disable-hook", hookName)

\* a disable-hook that never looks the name up in KNOWN_HOOKS
DisableHookUnchecked(ctx, doc, hookOpt) ==
    LET hookName == hookOpt[1]
        hooks == DisabledHooks(doc)
    IN IF ~IsSome(hookOpt) \/ hookName = ""
       THEN Unchanged(ctx, Report("help", "disable-hook", KnownHookSet))
       ELSE IF hookName \notin SeqToSet(hooks)
       THEN BackupThenWriteOmo(ctx,
                ObjSet(doc, "disabled_hooks", JArray(Append(hooks, hookName))),
                ctx.proto, "disable-hook", hookName)
       ELSE Unchanged(ctx, Report("info", "already-disabled", hookName))

\* case 'disable-hook'
DisableHook(ctx, doc, hookOpt) ==
    LET hookName == hookOpt[1]
        hooks == DisabledHooks(doc)
    IN IF ~IsSome(hookOpt) \/ hookName = ""
       THEN Unchanged(ctx, Report("help", "disable-hook", KnownHookSet))
       ELSE IF hookName \notin KnownHookSet
       THEN Unchanged(ctx, Report("error", "unknown-hook", hookName))
       ELSE IF hookName \notin SeqToSet(hooks)
       THEN BackupThenWriteOmo(ctx,
                ObjSet(doc, "disabled_hooks", JArray(Append(hooks, hookName))),
                ctx.proto, "disable-hook", hookName)
       ELSE Unchanged(ctx, Report("info", "already-disabled", hookName))

\* an enable-hook that empties disabled_hooks instead of filtering it
EnableHookClearing(ctx, doc, hookOpt) ==
    LET hookName == hookOpt[1]
        hooks == DisabledHooks(doc)
    IN IF ~IsSome(hookOpt) \/ hookName = ""
       THEN Unchanged(ctx, Report("help", "enable-hook", SeqToSet(hooks)))
       ELSE IF ~ObjHas(doc, "disabled_hooks") \/ hookName \notin SeqToSet(hooks)
       THEN Unchanged(ctx, Report("info", "not-disabled", hookName))
       ELSE BackupThenWriteOmo(ctx, ObjSet(doc, "disabled_hooks", JArray(<<>>)),
                               ctx.proto, "enable-hook", hookName)

\* case 'enable-hook'
EnableHook(ctx, doc, hookOpt) ==
    LET hookName == hookOpt[1]
        hooks == DisabledHooks(doc)
    IN IF ~IsSome(hookOpt) \/ hookName = ""
       THEN Unchanged(ctx, Report("help", "enable-hook", SeqToSet(hooks)))
       ELSE IF ~ObjHas(doc, "disabled_hooks") \/ hookName \notin SeqToSet(hooks)
       THEN Unchanged(ctx, Report("info", "not-disabled", hookName))
       ELSE BackupThenWriteOmo(ctx,
                ObjSet(doc, "disabled_hooks", JArray(Without(hooks, hookName))),
                ctx.proto, "enable-hook", hookName)

\* case 'backup-configs'
BackupConfigs(ctx) ==
    LET b == backupConfigsInternal(ctx.omo, ctx.oc, ctx.archive, ctx.now, ctx.tz, ctx.faults)
    IN [omo |-> ctx.omo, oc |-> ctx.oc, archive |-> b.archive, proto |-> ctx.proto,
        report |-> IF b.ok
                   THEN Report("success", "backup-configs", <<b.omoBackup, b.ocBackup>>)
                   ELSE Report("error", "backup-failed", <<>>),
        events |-> BackupEvents(ctx, b),
        created |-> b.created]

\* readJsonFile(backupPath, {}) of a file of the archive
readBackupFile(arch, name, readFails) ==
    IF name \notin ArchiveNames(arch) THEN Some(EmptyObj)
    ELSE IF readFails \/ ~ArchiveFile(arch, name).valid THEN None
    ELSE Some(ArchiveFile(arch, name).doc)

\* a restore that writes the chosen backup over both live files
RestoreOverBoth(ctx, backupName) ==
    LET b == backupConfigsInternal(ctx.omo, ctx.oc, ctx.archive, ctx.now, ctx.tz, ctx.faults)
        backupData == readBackupFile(b.archive, backupName, "readBackup" \in ctx.faults)
        isOmo == startsWith(backupName, "omo-backup-")
        isOc == ~isOmo /\ startsWith(backupName, "opencode-backup-")
        wrote == IsSome(backupData) /\ ctx.faults \cap WriteFaults = {}
    IN [omo |-> IF IsSome(backupData) /\ (isOmo \/ isOc)
                THEN Written(ctx.omo, backupData[1], ctx.faults) ELSE ctx.omo,
        oc |-> IF IsSome(backupData) /\ (isOmo \/ isOc)
               THEN Written(ctx.oc, backupData[1], ctx.faults) ELSE ctx.oc,
        archive |-> b.archive,
        proto |-> ctx.proto,
        report |-> IF ~isOmo /\ ~isOc THEN Report("error", "unknown-backup-type", backupName)
                   ELSE IF wrote THEN Report("success", "restore-backup", backupName)
                   ELSE Report("error", "exception", <<>>),
        events |-> BackupEvents(ctx, b)
                   \o (IF ~isOmo /\ ~isOc THEN <<>>
                       ELSE IF ~IsSome(backupData) THEN <<"read-failed:backup">>
                       ELSE IF ~wrote THEN (IF isOmo THEN <<"write-failed:omo">> ELSE <<"write-failed:oc">>)
                       ELSE IF isOmo THEN <<"write:omo">> ELSE <<"write:oc">>),
        created |-> b.created]

\* the restore step of case 'restore-backup': the safety backup, then the
\* chosen backup is read and written over the live file of its kind
RestoreFrom(ctx, backupName) ==
    LET b == backupConfigsInternal(ctx.omo, ctx.oc, ctx.archive, ctx.now, ctx.tz, ctx.faults)
        backupData == readBackupFile(b.archive, backupName, "readBackup" \in ctx.faults)
        isOmo == startsWith(backupName, "omo-backup-")
        isOc == ~isOmo /\ startsWith(backupName, "opencode-backup-")
        wrote == IsSome(backupData) /\ ctx.faults \cap WriteFaults = {}
    IN [omo |-> IF IsSome(backupData) /\ isOmo
                THEN Written(ctx.omo, backupData[1], ctx.faults) ELSE ctx.omo,
        oc |-> IF IsSome(backupData) /\ isOc
               THEN Written(ctx.oc, backupData[1], ctx.faults) ELSE ctx.oc,
        archive |-> b.archive,
        proto |-> ctx.proto,
        report |-> IF ~isOmo /\ ~isOc THEN Report("error", "unknown-backup-type", backupName)
                   ELSE IF wrote THEN Report("success", "restore-backup", backupName)
                   ELSE Report("error", "exception", <<>>),
        events |-> BackupEvents(ctx, b)
                   \o (IF ~isOmo /\ ~isOc THEN <<>>
                       ELSE IF ~IsSome(backupData) THEN <<"read-failed:backup">>
                       ELSE IF ~wrote THEN (IF isOmo THEN <<"write-failed:omo">> ELSE <<"write-failed:oc">>)
                       ELSE IF isOmo THEN <<"write:omo">> ELSE <<"write:oc">>),
        created |-> b.created]

\* case 'restore-backup'
RestoreBackup(ctx, indexOpt) ==
    LET existingBackups == listBackups(ctx.archive, ListLimit)
        backupIndex == indexOpt[1]
    IN IF ~IsSome(indexOpt)
       THEN Unchanged(ctx, Report("help", "restore-backup", existingBackups))
       ELSE IF backupIndex < 1 \/ backupIndex > Len(existingBackups)
       THEN Unchanged(ctx, Report("error", "invalid-index", Len(existingBackups)))
       ELSE RestoreFrom(ctx, existingBackups[backupIndex])

\* the keys of an object in their order
ObjKeySeq(o) == [i \in 1..Len(o) |-> o[i].k]

\* case 'compare-backup': the report names the backup and, section by
\* section, the keys added, removed and changed since it was made
CompareBackup(ctx, omoDoc, ocDoc, indexOpt) ==
    LET existingBackups == listBackups(ctx.archive, ListLimit)
        idx == indexOpt[1]
        backupName == existingBackups[idx]
        backupRead == readBackupFile(ctx.archive, backupName, "readBackup" \in ctx.faults)
        backupData == backupRead[1]
        \* config.section ?? {}
        part(doc, section) ==
            IF ObjHas(doc, section) THEN ObjGet(doc, section).o ELSE EmptyObj
        list(doc, section) ==
            IF ObjHas(doc, section) THEN ObjGet(doc, section).a ELSE <<>>
        \* k in obj: an own key or one inherited from Object.prototype
        in(k, obj) == ObjHas(obj, k) \/ ObjHas(ctx.proto, k)
        \* JSON.stringify(cur[k]) !== JSON.stringify(bak[k])
        differs(k, cur, bak) == ~ObjHas(bak, k) \/ ObjGet(cur, k) # ObjGet(bak, k)
        diff(cur, bak) ==
            LET isAdded(k) == ~in(k, bak)
                isRemoved(k) == ~in(k, cur)
                isChanged(k) == in(k, bak) /\ differs(k, cur, bak)
            IN [added |-> SelectSeq(ObjKeySeq(cur), isAdded),
                removed |-> SelectSeq(ObjKeySeq(bak), isRemoved),
                changed |-> SelectSeq(ObjKeySeq(cur), isChanged)]
        ownDiff(cur, bak) ==
            LET isAdded(k) == ~ObjHas(bak, k)
                isRemoved(k) == ~ObjHas(cur, k)
            IN [added |-> SelectSeq(ObjKeySeq(cur), isAdded),
                removed |-> SelectSeq(ObjKeySeq(bak), isRemoved)]
        lists(cur, bak) == IF cur # bak THEN <<cur, bak>> ELSE <<>>
    IN IF ~IsSome(indexOpt)
       THEN Unchanged(ctx, Report("help", "compare-backup", existingBackups))
       ELSE IF idx < 1 \/ idx > Len(existingBackups)
       THEN Unchanged(ctx, Report("error", "invalid-index", Len(existingBackups)))
       ELSE IF startsWith(backupName, "omo-backup-")
       THEN IF ~IsSome(backupRead)
            THEN Unchanged(ctx, Report("thrown", "read-failed", backupName))
            ELSE Unchanged(ctx, Report("listing", "compare-backup",
                     [backup |-> backupName,
                      agents |-> diff(part(omoDoc, "agents"), part(backupData, "agents")),
                      categories |-> diff(part(omoDoc, "categories"),
                                          part(backupData, "categories")),
                      disabled |-> lists(list(omoDoc, "disabled_hooks"),
                                         list(backupData, "disabled_hooks"))]))
       ELSE IF startsWith(backupName, "opencode-backup-")
       THEN IF ~IsSome(backupRead)
            THEN Unchanged(ctx, Report("thrown", "read-failed", backupName))
            ELSE Unchanged(ctx, Report("listing", "compare-backup",
                     [backup |-> backupName,
                      plugins |-> lists(list(ocDoc, "plugin"), list(backupData, "plugin")),
                      providers |-> ownDiff(part(ocDoc, "provider"),
                                            part(backupData, "provider"))]))
       ELSE Unchanged(ctx, Report("error", "unknown-backup-type", backupName))

\* purpose.substring(0, 40)
PurposeWidth == 40

\* the read-only cases: what the report lists.  list-agents and
\* list-categories print one row for every entry
Listing(ctx, action, omoDoc, ocDoc) ==
    LET orNA(v) == IF Falsy(v) THEN JStr("N/A") ELSE v
        temp(config) ==
            IF ObjGet(config, "temperature") # Undefined
            THEN ObjGet(config, "temperature") ELSE JStr("N/A")
        purpose(config) ==
            LET text == ObjGet(config, "prompt_append")
            IN IF Falsy(text) THEN ""
               ELSE SubSeq(text.s, 1, Min2(PurposeWidth, Len(text.s)))
        agents == Section(omoDoc, "agents")
        categories == Section(omoDoc, "categories")
    IN Unchanged(ctx, Report("listing", action,
        IF action = "list-agents"
        THEN [i \in 1..Len(agents) |->
                 [name |-> agents[i].k,
                  model |-> orNA(ObjGet(agents[i].v.o, "model")),
                  temperature |-> temp(agents[i].v.o),
                  status |-> IF Falsy(ObjGet(agents[i].v.o, "disable"))
                             THEN "Enabled" ELSE "Disabled"]]
        ELSE IF action = "list-categories"
        THEN [i \in 1..Len(categories) |->
                 [name |-> categories[i].k,
                  model |-> orNA(ObjGet(categories[i].v.o, "model")),
                  temperature |-> temp(categories[i].v.o),
                  purpose |-> purpose(categories[i].v.o)]]
        ELSE IF action = "list-oc-models" THEN ObjKeys(Section(ocDoc, "provider"))
        ELSE IF action = "show-permissions"
        THEN <<Section(ocDoc, "permission"),
               [i \in 1..Len(agents) |->
                   IF Falsy(ObjGet(agents[i].v.o, "permission")) THEN <<>>
                   ELSE <<agents[i].k, ObjGet(agents[i].v.o, "permission")>>]>>
        ELSE {}))

ReadOnlyActions ==
    {"list-agents", "list-categories", "list-skills", "list-oc-models",
     "show-permissions", "check-updates", "run-diagnostics", "unknown"}

\* const effectiveOptions = mergeOptions(inferOptionsFromRequest(action, request), options)
effectiveOptions(call) ==
    mergeOptions(inferOptionsFromRequest(call.action, call.request), call.options)

\* executeAction(action, request, options), eff its effectiveOptions
executeAction(ctx, action, eff) ==
    LET omoConfig == readJsonFile(ctx.omo)
        ocConfig == readJsonFile(ctx.oc)
    IN IF "load" \in ctx.faults \/ ~IsSome(omoConfig) \/ ~IsSome(ocConfig)
       THEN Unchanged(ctx, Report("thrown", "load", <<>>))
       ELSE IF action = "add-agent"
       THEN AddEntity(ctx, omoConfig[1], "agents", AgentFields,
                      eff.agentName, eff.agentData, action)
       ELSE IF action = "modify-agent"
       THEN ModifyEntity(ctx, omoConfig[1], "agents", AgentFields,
                         eff.agentName, eff.agentData, action)
       ELSE IF action = "add-category"
       THEN AddEntity(ctx, omoConfig[1], "categories", CategoryFields,
                      eff.categoryName, eff.categoryData, action)
       ELSE IF action = "modify-category"
       THEN ModifyEntity(ctx, omoConfig[1], "categories", CategoryFields,
                         eff.categoryName, eff.categoryData, action)
       ELSE IF action = "disable-hook" THEN DisableHook(ctx, omoConfig[1], eff.hookName)
       ELSE IF action = "enable-hook" THEN EnableHook(ctx, omoConfig[1], eff.hookName)
       ELSE IF action = "backup-configs" THEN BackupConfigs(ctx)
       ELSE IF action = "restore-backup" THEN RestoreBackup(ctx, eff.backupIndex)
       ELSE IF action = "compare-backup"
       THEN CompareBackup(ctx, omoConfig[1], ocConfig[1], eff.backupIndex)
       ELSE Listing(ctx, action, omoConfig[1], ocConfig[1])

(***************************************************************************)
(* The state machine: the two live config files, the archive directory,   *)
(* the host's clock and time zone, the process-wide Object.prototype, and  *)
(* history: the last run, the backups created most recently, and the       *)
(* timestamps of the backup operations that returned ok.                   *)
(***************************************************************************)
VARIABLES omoFile, ocFile, archive, proto, now, tz, last, recent, stamps

vars == <<omoFile, ocFile, archive, proto, now, tz, last, recent, stamps>>

NoRun == [action |-> "none", request |-> "", options |-> NoOptions, eff |-> NoOptions,
          report |-> Report("none", "none", <<>>), events |-> <<>>]

AbsentFile == [exists |-> FALSE, ext |-> ".json", valid |-> TRUE, doc |-> EmptyObj]
JsonFile(ext, doc) == [exists |-> TRUE, ext |-> ext, valid |-> TRUE, doc |-> doc]

\* the names created by a run go to the front of the most recent ones
RECURSIVE Recent(_, _)
Recent(old, created) ==
    IF created = <<>> THEN old
    ELSE LET moved == <<Head(created)>> \o Without(old, Head(created))
         IN Recent(SubSeq(moved, 1, Min2(KeepBackups, Len(moved))), Tail(created))

\* one request: executeAction(action, request, options) while the I/O calls
\* named in faults fail; call.eff holds the effective options of the call
Run(call, faults) ==
    \E r \in {executeAction([omo |-> omoFile, oc |-> ocFile, archive |-> archive,
                             proto |-> proto, now |-> now, tz |-> tz, faults |-> faults],
                            call.action, call.eff)} :
       /\ omoFile' = r.omo
       /\ ocFile' = r.oc
       /\ archive' = r.archive
       /\ proto' = r.proto
       /\ last' = [action |-> call.action, request |-> call.request,
                   options |-> call.options, eff |-> call.eff,
                   report |-> r.report, events |-> r.events]
       /\ recent' = Recent(recent, r.created)
       /\ stamps' = IF "backup-ok" \in SeqToSet(r.events)
                    THEN stamps \cup {createTimestamp(now, tz)} ELSE stamps
       /\ UNCHANGED <<now, tz>>

\* a second passes, up to the instant limit
Tick(limit) ==
    /\ now < limit
    /\ now' = now + 1
    /\ UNCHANGED <<omoFile, ocFile, archive, proto, tz, last, recent, stamps>>

(***************************************************************************)
(* Inputs: the configs a run may start from and the requests made.         *)
(***************************************************************************)
OmoDocA ==
    << [k |-> "agents", v |-> JObject(<<
           [k |-> "oracle", v |-> JObject(<<
               [k |-> "model", v |-> JStr("openai/gpt-5")],
               [k |-> "temperature", v |-> JNum(50)],
               [k |-> "prompt_append", v |-> JStr("be terse")],
               [k |-> "permission", v |-> JOpaque(1)],
               [k |-> "tools", v |-> JOpaque(2)] >>)] >>)],
       [k |-> "categories", v |-> JObject(<<
           [k |-> "quick", v |-> JObject(<<
               [k |-> "model", v |-> JStr("opencode/fast")],
               [k |-> "top_p", v |-> JNum(90)] >>)] >>)],
       [k |-> "disabled_hooks", v |-> JArray(<<"think-mode">>)],
       [k |-> "sisyphus_agent", v |-> JStr("oracle")],
       [k |-> "mcp", v |-> JOpaque(3)] >>

OcDocA ==
    << [k |-> "provider", v |-> JObject(<<[k |-> "ollama", v |-> JObject(EmptyObj)]>>)],
       [k |-> "permission", v |-> JObject(<<[k |-> "bash", v |-> JStr("ask")]>>)],
       [k |-> "plugin", v |-> JArray(<<"oh-my-opencode">>)] >>

\* a request as the plugin and the command-line wrapper make it
Text(request) ==
    LET call == [action |-> parseAction(request), request |-> request, options |-> NoOptions]
    IN [action |-> call.action, request |-> request, options |-> NoOptions,
        eff |-> effectiveOptions(call)]

\* a call of executeAction with explicit options
Api(action, options) ==
    LET call == [action |-> action, request |-> "", options |-> options]
    IN [action |-> action, request |-> "", options |-> options,
        eff |-> effectiveOptions(call)]

Named(field, name) == [NoOptions EXCEPT ![field] = Some(name)]
WithAgentData(name, data) ==
    [NoOptions EXCEPT !.agentName = Some(name), !.agentData = Some(data)]
WithCategoryData(name, data) ==
    [NoOptions EXCEPT !.categoryName = Some(name), !.categoryData = Some(data)]

\* name repeated: n copies of the string c
RECURSIVE Repeat(_, _)
Repeat(c, n) == IF n = 0 THEN "" ELSE c \o Repeat(c, n - 1)

Name64 == "a-b_9" \o Repeat("x", MaxKeyLen - 5)
Name65 == Name64 \o "y"

Model(m) == <<[k |-> "model", v |-> JStr(m)]>>
Temperature(t) == <<[k |-> "temperature", v |-> JNum(t)]>>

\* the host's local time is this many ticks ahead of UTC
TzOffsets == {-1, 0, 1}

Start(omoFiles, ocFiles, offsets) ==
    /\ omoFile \in omoFiles
    /\ ocFile \in ocFiles
    /\ archive = {}
    /\ proto = InitialPrototype
    /\ now = 0
    /\ tz \in offsets
    /\ last = NoRun
    /\ recent = <<>>
    /\ stamps = {}

(***************************************************************************)
(* Spec: requests of every kind made within one second, where the backup   *)
(* or the write of a run may fail.                                         *)
(***************************************************************************)
\* at most this many I/O calls of a run fail
MaxFaults == 1

FaultSets(points) == {F \in SUBSET points : Cardinality(F) <= MaxFaults}

Calls ==
    { Text("add agent oracle with model opencode/gpt-5.2 and temperature 0.2"),
      Api("modify-agent", WithAgentData("oracle", Model("opencode/gpt-5.2"))),
      Text("add category quick with model opencode/gpt-5.2"),
      Api("modify-category", WithCategoryData("quick", Model("opencode/gpt-5.2"))),
      Text("disable hook comment-checker"),
      Text("enable hook comment-checker"),
      Text("restore 1"),
      Text("restore 2"),
      Text("list my agents"),
      Api("add-agent", WithAgentData("__proto__", Model("m1"))),
      Api("modify-agent", WithAgentData("oracle", Temperature(101))),
      Api("add-category", Named("categoryName", "helper")),
      Text("modify agent ghost set model m2"),
      Api("disable-hook", Named("hookName", "bogus")) }

Init == Start({JsonFile(".json", OmoDocA)}, {JsonFile(".jsonc", OcDocA)}, {0})

Next ==
    \E call \in Calls,
       faults \in FaultSets({"mkdir", "writeConfig", "writeCut", "readBackup"}) :
        Run(call, faults)

Spec == Init /\ [][Next]_vars

(***************************************************************************)
(* SpecBackup: backup requests over two seconds, in any time zone, with    *)
(* either live file present or missing, where any I/O call of the backup   *)
(* may fail.                                                               *)
(***************************************************************************)
\* the last instant of the clock
MaxClock == 1

BackupCalls == {Text("backup my configs"), Text("disable hook comment-checker")}

InitBackup ==
    Start({AbsentFile, JsonFile(".json", OmoDocA)}, {AbsentFile, JsonFile(".jsonc", OcDocA)},
          TzOffsets)

NextBackup ==
    \/ Tick(MaxClock)
    \/ \E call \in BackupCalls,
          faults \in FaultSets({"mkdir", "copyOmo", "placeholderOmo", "copyOc",
                                "placeholderOc", "readdir", "unlink"}) :
          Run(call, faults)

SpecBackup == InitBackup /\ [][NextBackup]_vars

(***************************************************************************)
(* SpecRetention: backups, restores and a change of the config, one        *)
(* second after another, with no I/O failure.                              *)
(***************************************************************************)
\* the last instant of the clock
RetentionClock == 5

RetentionCalls ==
    { Text("backup my configs"),
      Text("disable hook comment-checker"),
      Text("restore 1"), Text("restore 2"), Text("restore 3"),
      Text("restore 4"), Text("restore 5") }

InitRetention == Start({JsonFile(".json", OmoDocA)}, {JsonFile(".jsonc", OcDocA)}, {0})

NextRetention ==
    \/ Tick(RetentionClock)
    \/ \E call \in RetentionCalls : Run(call, {})

SpecRetention == InitRetention /\ [][NextRetention]_vars

(***************************************************************************)
(* SpecNames: requests that name agents, categories and hooks, by explicit *)
(* option and in the request text, with no I/O failure.                    *)
(***************************************************************************)
NameCalls ==
    { Text("add agent __proto__ with model opencode/gpt-5.2"),
      Text("add category __proto__ with model opencode/gpt-5.2"),
      Text("disable hook __proto__"),
      Api("add-agent", WithAgentData("__proto__", Model("m1"))),
      Api("add-category", WithCategoryData("__proto__", Model("m1"))),
      Api("disable-hook", Named("hookName", "__proto__")),
      Api("add-agent", WithAgentData(Name64, Model("m1"))),
      Api("add-agent", WithAgentData(Name65, Model("m1"))),
      Api("add-category", WithCategoryData("constructor", Model("m1"))),
      Api("add-agent", WithAgentData("Prototype", Model("m1"))),
      Api("add-agent", WithAgentData("bad.name", Model("m1"))),
      Api("modify-agent", WithAgentData("toString", Model("m2"))),
      Api("modify-category", WithCategoryData("valueOf", Temperature(30))),
      Api("modify-agent", WithAgentData("ghost", Model("m2"))),
      Api("modify-agent", WithAgentData("oracle", Temperature(30))),
      Api("modify-category", WithCategoryData("quick",
          <<[k |-> "model", v |-> JStr("m2")], [k |-> "prompt_append", v |-> JStr("short")]>>)) }

InitNames == Start({AbsentFile, JsonFile(".json", OmoDocA)}, {JsonFile(".jsonc", OcDocA)}, {0})

NextNames == \E call \in NameCalls : Run(call, {})

SpecNames == InitNames /\ [][NextNames]_vars

(***************************************************************************)
(* SpecTemperature: add and modify requests that carry a temperature, by   *)
(* explicit option and in the request text, with no I/O failure.           *)
(***************************************************************************)
\* the temperatures asked for, in hundredths
Temperatures == {0, 100, -1, 101}

TemperatureTexts == {"0", "1.0", "-0.01", "1.01"}

TemperatureCalls ==
    { Text("add agent dbg with model opencode/gpt-5.2 and temperature " \o t) :
          t \in TemperatureTexts }
    \cup { Text("modify category quick set temperature to " \o t) : t \in TemperatureTexts }
    \cup { Api("modify-agent", WithAgentData("oracle", Temperature(t))) : t \in Temperatures }
    \cup { Api("add-category", WithCategoryData("deep", Model("m1") \o Temperature(t))) :
             t \in Temperatures }

InitTemperature == Start({JsonFile(".json", OmoDocA)}, {JsonFile(".jsonc", OcDocA)}, {0})

NextTemperature == \E call \in TemperatureCalls : Run(call, {})

SpecTemperature == InitTemperature /\ [][NextTemperature]_vars

(***************************************************************************)
(* SpecHooks: hooks disabled and enabled by any name, and the config        *)
(* compared with its backups, on a config that is missing, or lists a hook *)
(* the tool knows, or also one it does not know, where the backup or the   *)
(* write of a run may fail.                                                *)
(***************************************************************************)
\* OmoDocA after its owner disabled a hook that KNOWN_HOOKS does not list
OmoDocH == ObjSet(OmoDocA, "disabled_hooks", JArray(<<"think-mode", "legacy-hook">>))

HookNames == {"comment-checker", "think-mode", "legacy-hook", "bogus"}

HookCalls ==
    { Api(action, Named("hookName", hook)) :
          action \in {"disable-hook", "enable-hook"}, hook \in HookNames }
    \cup { Text("disable hook bogus"), Text("enable hook legacy-hook"),
           Text("enable hook"), Text("disable hook") }
    \cup { Text("compare 1"), Text("compare 2"), Text("compare 3") }

InitHooks ==
    Start({AbsentFile, JsonFile(".json", OmoDocA), JsonFile(".json", OmoDocH)},
          {JsonFile(".jsonc", OcDocA)}, {0})

NextHooks ==
    \E call \in HookCalls, faults \in FaultSets({"mkdir", "writeConfig"}) : Run(call, faults)

SpecHooks == InitHooks /\ [][NextHooks]_vars

(***************************************************************************)
(* SpecDisplay: the requests that only read, the changing requests made    *)
(* without a name or an index, and a few that write, on config files that  *)
(* are missing, readable or unreadable, where the loading of a run may     *)
(* fail.                                                                   *)
(***************************************************************************)
\* OmoDocA with a prompt for its category as well
OmoDocP ==
    WithEntry(OmoDocA, "categories", "quick",
              ObjSet(ObjGet(Section(OmoDocA, "categories"), "quick").o,
                     "prompt_append", JStr("answer fast")))

ReadingCalls ==
    { Text("list my agents"), Text("list categories"), Text("list skills"),
      Text("list models"), Text("show permissions"), Text("check for updates"),
      Text("run diagnostics"), Text("compare"), Text("compare 1"), Text("compare 2"),
      Text("hello there") }

NamelessCalls ==
    { Api(action, NoOptions) :
          action \in {"add-agent", "modify-agent", "add-category", "modify-category",
                      "disable-hook", "enable-hook", "restore-backup"} }
    \cup { Text("restore"), Text("disable hook"), Text("enable hook") }

WritingCalls ==
    { Text("backup my configs"),
      Text("add agent dbg with model opencode/gpt-5.2 prompt \"be kind\""),
      Api("modify-category", WithCategoryData("quick", Model("opencode/gpt-5.2"))),
      Text("disable hook comment-checker") }

DisplayCalls == ReadingCalls \cup NamelessCalls \cup WritingCalls

InitDisplay ==
    Start({AbsentFile, JsonFile(".json", OmoDocP), BrokenFile(".json")},
          {AbsentFile, JsonFile(".jsonc", OcDocA), BrokenFile(".jsonc")}, {0})

NextDisplay == \E call \in DisplayCalls, faults \in FaultSets({"load"}) : Run(call, faults)

SpecDisplay == InitDisplay /\ [][NextDisplay]_vars

(***************************************************************************)
(* SpecCli: one run of the command-line wrapper, which joins its           *)
(* arguments with spaces into the request, classifies it and executes it.  *)
(***************************************************************************)
\* the arguments given on the command line
Words ==
    {"list", "agent", "update", "my", "category", "restore", "compare", "backup",
     "add", "1"}

\* at most this many arguments
MaxWords == 3

\* process.argv.slice(2).join(' ')
RECURSIVE JoinWords(_)
JoinWords(args) ==
    IF Len(args) = 1 THEN args[1] ELSE args[1] \o " " \o JoinWords(Tail(args))

\* process.argv.slice(2)
CliArgs == UNION {[1..n -> Words] : n \in 1..MaxWords}

InitCli == Start({JsonFile(".json", OmoDocA)}, {JsonFile(".jsonc", OcDocA)}, {0})

\* main() handles one request and the process ends
NextCli == last = NoRun /\ \E args \in CliArgs : Run(Text(JoinWords(args)), {})

SpecCli == InitCli /\ [][NextCli]_vars

(***************************************************************************)
(* SpecEntries: agents and categories added and modified, named by         *)
(* explicit option and in the request text in either word order, with and  *)
(* without a prompt, with no I/O failure.                                  *)
(***************************************************************************)
Prompt(text) == <<[k |-> "prompt_append", v |-> JStr(text)]>>

EntryCalls ==
    { Text("add a new agent called debugger with model opencode/gpt-5.2"),
      Text("modify oracle agent set temperature to 0.3"),
      Text("modify agent named oracle set temperature to 0.3"),
      Text("modify quick category set model opencode/gpt-5.2"),
      Api("add-agent", WithAgentData("oracle", Model("m1") \o Prompt(""))),
      Api("modify-agent", WithAgentData("oracle", Prompt("be brief"))),
      Api("add-category", WithCategoryData("quick", Model("m1"))),
      Api("modify-category", WithCategoryData("quick", Prompt(""))) }

InitEntries == Start({AbsentFile, JsonFile(".json", OmoDocP)}, {JsonFile(".jsonc", OcDocA)}, {0})

NextEntries == \E call \in EntryCalls : Run(call, {})

SpecEntries == InitEntries /\ [][NextEntries]_vars

(***************************************************************************)
(* Properties.                                                             *)
(***************************************************************************)
WriteEvents == {"write:omo", "write:oc", "write-failed:omo", "write-failed:oc"}

MutatingActions ==
    {"add-agent", "modify-agent", "add-category", "modify-category",
     "disable-hook", "enable-hook"}

\* every write of the run comes after the run's call of backupConfigsInternal
BackupPrecedesWrites(events) ==
    \A i \in 1..Len(events) :
        events[i] \in WriteEvents => \E j \in 1..(i - 1) : events[j] = "backup"

\* C1: in every run that writes a live config file, or changes one, the
\* backup of both live files is attempted earlier in the same run than the
\* write; no write happens without that attempt before it.
BackupAttemptBeforeEveryWrite ==
    [][ (\/ omoFile' # omoFile
         \/ ocFile' # ocFile
         \/ SeqToSet(last'.events) \cap WriteEvents # {})
        => /\ "backup" \in SeqToSet(last'.events)
           /\ BackupPrecedesWrites(last'.events) ]_vars

\* a hook was enabled and the config written although the backup failed
WroteAfterFailedBackup ==
    /\ last.action = "enable-hook"
    /\ last.events = <<"backup", "backup-failed", "write:omo">>
    /\ "comment-checker" \notin SeqToSet(DisabledHooks(omoFile.doc))

\* C2: once backup operations have succeeded at KeepBackups + 1 or more
\* different seconds, the archive holds exactly KeepBackups backup files,
\* and they are the ones created most recently.
RetentionKeepsMostRecent ==
    Cardinality(stamps) >= KeepBackups + 1
    => /\ Cardinality(archive) = KeepBackups
       /\ ArchiveNames(archive) = SeqToSet(recent)

\* C3: a restore that reports success, made in a second in which no backup
\* was made before, makes a fresh backup first and leaves the live file of
\* the chosen backup's kind with the contents the backup listed at that
\* index held when the request started.
RestoreGivesChosenBackup ==
    [][ (/\ now' = now
         /\ last'.action = "restore-backup"
         /\ last'.report.status = "success"
         /\ createTimestamp(now, tz) \notin stamps)
        => LET name == listBackups(archive, ListLimit)[last'.eff.backupIndex[1]]
               chosen == ArchiveFile(archive, name).doc
           IN /\ Head(last'.events) = "backup"
              /\ IF startsWith(name, "omo-backup-")
                 THEN omoFile'.doc = chosen
                 ELSE ocFile'.doc = chosen ]_vars

\* C4: a backup-configs run in which the copy of an existing live config
\* file failed reports a failure.
CopyFailureIsReported ==
    (/\ last.action = "backup-configs"
     /\ {"copy-failed:omo", "copy-failed:oc"} \cap SeqToSet(last.events) # {})
    => last.report.status = "error"

RejectionCodes == {"invalid-name", "temperature", "missing-model", "not-found", "unknown-hook"}

\* C5: a run of a mutating action that validation rejects returns an error
\* report, does not throw, writes neither config file and creates no backup:
\* both config files and the archive are as before.
RejectionChangesNothing ==
    [][ (last'.action \in MutatingActions /\ last'.report.code \in RejectionCodes)
        => /\ last'.report.status = "error"
           /\ last'.events = <<>>
           /\ omoFile' = omoFile
           /\ ocFile' = ocFile
           /\ archive' = archive ]_vars

\* a temperature was rejected after the config had been changed and backed up
RejectedAfterChanges ==
    /\ last.action = "modify-agent"
    /\ last.report = Report("error", "temperature", "oracle")
    /\ archive # {}
    /\ omoFile.doc # OmoDocA

\* the number written at position j, with its sign, in hundredths
SignedNumberAt(s, j) ==
    LET digits == IF Ch(s, j) = "-" THEN NumberCaptureAt(s, j + 1) ELSE NumberCaptureAt(s, j)
    IN IF ~IsSome(digits) THEN None
       ELSE IF Ch(s, j) = "-" THEN Some(0 - ParseFloat(digits[1]))
       ELSE Some(ParseFloat(digits[1]))

\* the temperature a request text asks for: the number, with its sign, that
\* follows the word temperature
WrittenTemperature(request) ==
    LET at(p) == IF WordAt(request, p, "temperature")
                 THEN FirstSome([j \in 1..(Len(request) + 1) |-> SignedNumberAt(request, j)],
                                ValueStarts(request, p + Len("temperature")))
                 ELSE None
        P == {p \in 1..Len(request) : IsSome(at(p))}
    IN IF P = {} THEN None ELSE at(MinOf(P))

\* the temperature a run was asked for: the explicit parameter, else the
\* one written in the request text
RequestedTemperature(run) ==
    LET given == IF run.action \in {"add-agent", "modify-agent"}
                 THEN run.options.agentData ELSE run.options.categoryData
    IN IF IsSome(given) /\ ObjHas(given[1], "temperature")
       THEN Some(ObjGet(given[1], "temperature").n)
       ELSE WrittenTemperature(run.request)

EntityActions == {"add-agent", "modify-agent", "add-category", "modify-category"}

\* C6: an add or modify run with otherwise valid parameters that was asked
\* for the temperature t succeeds iff 0.0 <= t <= 1.0, whether t is an
\* explicit parameter or is written in the request text.
TemperatureDecides ==
    (/\ last.action \in EntityActions
     /\ IsSome(RequestedTemperature(last))
     /\ last.report.status \in {"success", "error"}
     /\ last.report.code \notin {"invalid-name", "missing-model", "not-found"})
    => LET t == RequestedTemperature(last)[1]
       IN (last.report.status = "success") <=> (0 <= t /\ t <= 100)

\* the name s occurs in the request text
Mentions(request, s) == \E i \in 1..Len(request) : ExactAt(request, i, s)

\* the entity or hook name given as the explicit option of the run's action
GivenName(run) ==
    IF run.action \in {"add-agent", "modify-agent"} THEN run.options.agentName
    ELSE IF run.action \in {"add-category", "modify-category"} THEN run.options.categoryName
    ELSE run.options.hookName

\* C7: a run of add-agent, add-category or disable-hook that was asked for
\* the name __proto__, as an option or in the request text, reports no
\* success and writes nothing.
ProtoNameRejected ==
    (/\ last.action \in {"add-agent", "add-category", "disable-hook"}
     /\ (GivenName(last) = Some("__proto__") \/ Mentions(last.request, "__proto__")))
    => /\ last.report.status # "success"
       /\ last.events = <<>>

ReservedKeys == {"__proto__", "prototype", "constructor"}

\* letters, digits, hyphen and underscore only, at most MaxKeyLen of them,
\* and no reserved key
SafeIdentifier(key) ==
    /\ Len(key) >= 1
    /\ Len(key) <= MaxKeyLen
    /\ CharsOf(key) \subseteq KeyChars
    /\ key \notin ReservedKeys

\* C8: every key under agents and under categories of the stored config is
\* made of letters, digits, hyphen and underscore, is at most 64 characters
\* long and is none of __proto__, prototype, constructor.
StoredKeysAreSafe ==
    \A section \in {"agents", "categories"} :
        \A key \in ObjKeys(Section(omoFile.doc, section)) : SafeIdentifier(key)

\* the 64-character name is stored and an unsafe name has just been refused
LongestNameStored ==
    /\ Name64 \in ObjKeys(Section(omoFile.doc, "agents"))
    /\ last.report = Report("error", "invalid-name", "constructor")

\* the section a modify action works on, and what it was asked to change
SectionOf(action) == IF action = "modify-agent" THEN "agents" ELSE "categories"
GivenData(run) ==
    IF run.action = "modify-agent" THEN run.eff.agentData[1] ELSE run.eff.categoryData[1]
EffectiveName(run) ==
    IF run.action = "modify-agent" THEN run.eff.agentName ELSE run.eff.categoryName

\* C9: a modify run whose name passes the safe-identifier check and is not
\* an entry of the section of the current config is rejected with the
\* not-found error and writes nothing.
MissingEntryIsNotFound ==
    [][ (/\ now' = now
         /\ last'.action \in {"modify-agent", "modify-category"}
         /\ IsSome(EffectiveName(last'))
         /\ isSafeConfigKey(EffectiveName(last')[1])
         /\ ~TemperatureOutOfRange(ObjGet(GivenData(last'), "temperature"))
         /\ ~ObjHas(Section(omoFile.doc, SectionOf(last'.action)), EffectiveName(last')[1]))
        => /\ last'.report.code = "not-found"
           /\ last'.events = <<>>
           /\ omoFile' = omoFile ]_vars

\* what a successful modify of the entry name of section may change, from
\* the document before to the document after
ModifyFrame(before, after, section, name, data) ==
    LET entries == Section(before, section)
        written == Section(after, section)
        old == ObjGet(entries, name).o
        new == ObjGet(written, name).o
    IN /\ [i \in 1..Len(after) |-> after[i].k] = [i \in 1..Len(before) |-> before[i].k]
       /\ \A key \in ObjKeys(before) \ {section} : ObjGet(after, key) = ObjGet(before, key)
       /\ [i \in 1..Len(written) |-> written[i].k] = [i \in 1..Len(entries) |-> entries[i].k]
       /\ \A other \in ObjKeys(entries) \ {name} : ObjGet(written, other) = ObjGet(entries, other)
       /\ ObjHas(entries, name) =>
             /\ \A field \in ObjKeys(old) \ ObjKeys(data) : ObjGet(new, field) = ObjGet(old, field)
             /\ ObjKeys(new) \subseteq ObjKeys(old) \cup ObjKeys(data)

\* C10: a successful modify-agent or modify-category changes only the fields
\* of the named entry that the effective parameters hold; the entry's other
\* fields, every other agent and category, disabled_hooks and every other
\* top-level field are written as they were, and the other config file is
\* left alone.
ModifyChangesOnlyGivenFields ==
    [][ (/\ now' = now
         /\ last'.action \in {"modify-agent", "modify-category"}
         /\ last'.report.status = "success")
        => /\ ModifyFrame(omoFile.doc, omoFile'.doc, SectionOf(last'.action),
                          EffectiveName(last')[1], GivenData(last'))
           /\ ocFile' = ocFile ]_vars

\* the temperature of oracle was changed and the model and prompt of quick
\* as well, and the fields that were not named are still there
ModifiedBoth ==
    /\ last.action = "modify-category"
    /\ last.report.status = "success"
    /\ ObjHas(Section(omoFile.doc, "agents"), "oracle")
    /\ ObjHas(Section(omoFile.doc, "categories"), "quick")
    /\ ObjGet(Section(omoFile.doc, "agents"), "oracle").o
         = ObjSet(ObjGet(Section(OmoDocA, "agents"), "oracle").o, "temperature", JNum(30))
    /\ ObjGet(ObjGet(Section(omoFile.doc, "categories"), "quick").o, "top_p") = JNum(90)
    /\ ObjGet(ObjGet(Section(omoFile.doc, "categories"), "quick").o, "model") = JStr("m2")


\* the hook a run names, and the hooks disabled in a config file
HookOf(run) == run.eff.hookName[1]
DisabledIn(file) == DisabledHooks(file.doc)

\* C11: in a run that loaded the configs, disabling a registered hook that
\* is not yet disabled backs up,
\* appends it to disabled_hooks when the write goes through and then reports
\* success; disabling it again reports that it is already disabled and
\* neither backs up nor writes; enabling a hook that is not disabled is an
\* informational no-op without a backup or a write
RepeatedHookToggleIsNoOp ==
    [][ /\ ( /\ last'.action = "disable-hook"
             /\ last'.report.code # "load"
             /\ IsSome(last'.eff.hookName)
             /\ HookOf(last') \in KnownHookSet )
           => IF HookOf(last') \in SeqToSet(DisabledIn(omoFile))
              THEN /\ last'.report = Report("info", "already-disabled", HookOf(last'))
                   /\ last'.events = <<>>
                   /\ omoFile' = omoFile /\ ocFile' = ocFile /\ archive' = archive
              ELSE /\ "backup" \in SeqToSet(last'.events)
                   /\ "write:omo" \in SeqToSet(last'.events)
                      => /\ last'.report.status = "success"
                         /\ DisabledIn(omoFile') = Append(DisabledIn(omoFile), HookOf(last'))
                   /\ last'.report.status = "success"
                      => "write:omo" \in SeqToSet(last'.events)
        /\ ( /\ last'.action = "enable-hook"
             /\ last'.report.code # "load"
             /\ IsSome(last'.eff.hookName)
             /\ HookOf(last') \notin SeqToSet(DisabledIn(omoFile)) )
           => /\ last'.report = Report("info", "not-disabled", HookOf(last'))
              /\ last'.events = <<>>
              /\ omoFile' = omoFile /\ ocFile' = ocFile /\ archive' = archive
      ]_vars

\* a hook that an earlier run disabled is disabled a second time
DisabledTwice ==
    /\ last.action = "disable-hook"
    /\ last.report = Report("info", "already-disabled", "comment-checker")
    /\ "comment-checker" \in SeqToSet(DisabledIn(omoFile))
    /\ archive # {}

\* C12: a disable-hook or enable-hook run that names a hook outside
\* KNOWN_HOOKS reports the unknown-hook validation error and neither backs
\* up nor writes, whatever disabled_hooks holds
UnknownHookIsRejected ==
    ( /\ last.action \in {"disable-hook", "enable-hook"}
      /\ IsSome(last.eff.hookName)
      /\ HookOf(last) # ""
      /\ HookOf(last) \notin KnownHookSet )
    => /\ last.report = Report("error", "unknown-hook", HookOf(last))
       /\ last.events = <<>>

\* the write alone: no run that names a hook outside KNOWN_HOOKS writes the
\* config
UnknownHookWritesNothing ==
    ( /\ last.action \in {"disable-hook", "enable-hook"}
      /\ IsSome(last.eff.hookName)
      /\ HookOf(last) \notin KnownHookSet )
    => "write:omo" \notin SeqToSet(last.events)

\* every non-empty prompt_append of the entries replaced by other text of
\* the same length
Reworded(doc) ==
    LET other(v) ==
            IF v.t = "string" /\ v.s # "" THEN JStr(Repeat("#", Len(v.s))) ELSE v
        entry(e) ==
            IF e.v.t = "object" /\ ObjHas(e.v.o, "prompt_append")
            THEN [k |-> e.k,
                  v |-> JObject(ObjSet(e.v.o, "prompt_append",
                                       other(ObjGet(e.v.o, "prompt_append"))))]
            ELSE e
        entries(o) == [i \in 1..Len(o) |-> entry(o[i])]
        section(d, name) ==
            IF ObjHas(d, name) /\ ObjGet(d, name).t = "object"
            THEN ObjSet(d, name, JObject(entries(ObjGet(d, name).o))) ELSE d
    IN section(section(doc, "agents"), "categories")

\* the report of a request made now, without an I/O failure, on the config
\* files given
ReportOn(omo, oc, run) ==
    executeAction([omo |-> omo, oc |-> oc, archive |-> archive, proto |-> proto,
                   now |-> now, tz |-> tz, faults |-> {}], run.action, run.eff).report

\* C13: no report shows prompt_append text: a request gets the same report
\* on two configs that differ only in the text of non-empty prompt_append
\* fields of the same length
PromptAppendNeverShown ==
    [][ last'.report.code # "load"
        => last'.report = ReportOn([omoFile EXCEPT !.doc = Reworded(@)], ocFile, last') ]_vars

\* the run was given no agent, category or hook name, or no backup index,
\* for the action it was to take
Nameless(run) ==
    \/ run.action \in {"add-agent", "modify-agent"} /\ ~IsSome(run.eff.agentName)
    \/ run.action \in {"add-category", "modify-category"} /\ ~IsSome(run.eff.categoryName)
    \/ run.action \in {"disable-hook", "enable-hook"} /\ ~IsSome(run.eff.hookName)
    \/ run.action = "restore-backup" /\ ~IsSome(run.eff.backupIndex)

\* C14: the actions that only read (the listings, show-permissions,
\* check-updates, run-diagnostics, compare-backup, unknown) and every
\* changing action run without a name or an index leave both config files
\* and the archive as they were and make no backup; "list my agents" on
\* missing configs reports that no agent is configured and creates no file
ReadingChangesNothing ==
    [][ /\ (last'.action \in ReadOnlyActions \cup {"compare-backup"} \/ Nameless(last'))
           => /\ omoFile' = omoFile /\ ocFile' = ocFile /\ archive' = archive
              /\ last'.events = <<>>
        /\ ( /\ last'.request = "list my agents"
             /\ ~omoFile.exists /\ ~ocFile.exists
             /\ last'.report.code # "load" )
           => /\ last'.report = Report("listing", "list-agents", <<>>)
              /\ ~omoFile'.exists /\ ~ocFile'.exists
      ]_vars

\* the agents of missing configs are listed while the archive holds backups
ListedNoAgents ==
    /\ last.request = "list my agents"
    /\ last.report = Report("listing", "list-agents", <<>>)
    /\ ~omoFile.exists /\ ~ocFile.exists
    /\ archive # {}

\* C15: a changing action either writes the live config file and reports
\* success, or leaves both live config files exactly as they were and gives
\* an error: no success without a completed write, no error after the live
\* config changed
WriteIsAllOrNothing ==
    [][ last'.action \in MutatingActions \cup {"restore-backup"}
        => /\ last'.report.status = "success"
              => SeqToSet(last'.events) \cap {"write:omo", "write:oc"} # {}
           /\ last'.report.status # "success"
              => omoFile' = omoFile /\ ocFile' = ocFile
      ]_vars

\* the name of the OpenCode backup a run makes now
OcBackupNow == "opencode-backup-" \o createTimestamp(now, tz) \o ExtOf(ocFile)

\* C16: the two backups are independent: when the backup of the OMO config
\* fails, its placeholder included, the OpenCode config is still backed up
\* (or its own copy and placeholder were tried and failed), and a changing
\* action goes on to write its config whichever backup failed
BackupsAreIndependent ==
    [][ /\ (now' = now /\ "placeholder-failed:omo" \in SeqToSet(last'.events))
           => \/ OcBackupNow \in ArchiveNames(archive')
              \/ "placeholder-failed:oc" \in SeqToSet(last'.events)
        /\ ( /\ last'.action \in MutatingActions
             /\ "backup-failed" \in SeqToSet(last'.events) )
           => SeqToSet(last'.events) \cap WriteEvents # {}
      ]_vars

\* the second half alone: a changing action whose backup failed goes on to
\* write its config
FailedBackupDoesNotStopTheWrite ==
    [][ ( /\ last'.action \in MutatingActions
          /\ "backup-failed" \in SeqToSet(last'.events) )
        => "write:omo" \in SeqToSet(last'.events) ]_vars

\* a config file that exists and holds the empty object
EmptyFile(file) == [exists |-> TRUE, ext |-> file.ext, valid |-> TRUE, doc |-> EmptyObj]

\* a missing file taken for one that holds {}
AsLoaded(file) == IF file.exists THEN file ELSE EmptyFile(file)

\* C17: a run on config files that are missing or parse does not abort at
\* load when no read fails, and reports what it would report if every
\* missing file held the empty object; a run that finds a config file it
\* cannot parse, or whose read fails, aborts whatever the action: it makes
\* no backup, writes nothing and leaves the files and the archive as they were
LoadFailureAbortsTheRequest ==
    [][ /\ (omoFile.valid /\ ocFile.valid)
           => /\ ReportOn(omoFile, ocFile, last').code # "load"
              /\ ReportOn(omoFile, ocFile, last')
                   = ReportOn(AsLoaded(omoFile), AsLoaded(ocFile), last')
              /\ last'.report.code # "load" => last'.report = ReportOn(omoFile, ocFile, last')
        /\ (~omoFile.valid \/ ~ocFile.valid \/ last'.report.code = "load")
           => /\ last'.report = Report("thrown", "load", <<>>)
              /\ last'.events = <<>>
              /\ omoFile' = omoFile /\ ocFile' = ocFile /\ archive' = archive
      ]_vars

\* a request that would change the OMO config is aborted because the
\* OpenCode config does not parse
AbortedOnBrokenOpenCodeConfig ==
    /\ last.request = "disable hook comment-checker"
    /\ last.report.status = "thrown" /\ last.report.code = "load"
    /\ last.events = <<>>
    /\ omoFile.exists /\ omoFile.valid
    /\ ~ocFile.valid

\* the whitespace-separated tokens of a request whose words are single-spaced
RECURSIVE TokensFrom(_, _, _)
TokensFrom(request, from, to) ==
    IF to > Len(request)
    THEN IF from > Len(request) THEN {} ELSE {SubSeq(request, from, Len(request))}
    ELSE IF Ch(request, to) = " "
    THEN (IF from < to THEN {SubSeq(request, from, to - 1)} ELSE {})
         \cup TokensFrom(request, to + 1, to + 1)
    ELSE TokensFrom(request, from, to + 1)

Tokens(run) == TokensFrom(run.request, 1, 1)

\* the words one of which every rule of the classifier asks for
RuleWords ==
    {"list", "show", "what", "update", "diagnostic", "valid", "check", "backup",
     "restore", "compare", "diff", "permission", "perm", "add", "modify", "change",
     "edit", "disable", "enable"}

ActionTypes ==
    MutatingActions \cup ReadOnlyActions
    \cup {"backup-configs", "restore-backup", "compare-backup"}

\* C18: a request with the tokens update and agent and none of list, show,
\* what, and no other verb, is classified modify-agent; with update and
\* category, modify-category
UpdateEntityIsModify ==
    ( /\ "update" \in Tokens(last)
      /\ Tokens(last) \cap {"list", "show", "what", "add", "backup", "restore", "compare"} = {} )
    => /\ ("agent" \in Tokens(last) /\ "category" \notin Tokens(last))
          => last.action = "modify-agent"
       /\ ("category" \in Tokens(last) /\ "agent" \notin Tokens(last))
          => last.action = "modify-category"

\* C19: a request whose tokens include list and agent is classified
\* list-agents, in any order and whatever other words stand between them;
\* every request is classified as one of the actions, and as unknown when
\* no token begins with a word a rule asks for
ListAgentsWins ==
    last.action # "none"
    => /\ ({"list", "agent"} \subseteq Tokens(last)) => last.action = "list-agents"
       /\ last.action \in ActionTypes
       /\ (\A t \in Tokens(last), w \in RuleWords : ~startsWith(t, w))
          => last.action = "unknown"

\* agents are listed by a request that names a backup first
ListedAgentsAfterOtherWords ==
    /\ last.request = "backup agent list"
    /\ last.action = "list-agents"
    /\ last.report.status = "listing"

\* C20: the requests "restore backup N" and "compare backup N" are
\* classified restore-backup and compare-backup with index N, and so is
\* every request of the words restore or compare, backup, my and a number
RestoreAndCompareByNumber ==
    /\ ("restore" \in Tokens(last) /\ Tokens(last) \subseteq {"restore", "backup", "my", "1"})
       => /\ last.action = "restore-backup"
          /\ "1" \in Tokens(last) => last.eff.backupIndex = Some(1)
    /\ ("compare" \in Tokens(last) /\ Tokens(last) \subseteq {"compare", "backup", "my", "1"})
       => /\ last.action = "compare-backup"
          /\ "1" \in Tokens(last) => last.eff.backupIndex = Some(1)

\* the name of the OMO backup a run makes now
OmoBackupNow == "omo-backup-" \o createTimestamp(now, tz) \o ExtOf(omoFile)

\* C21: when the backup operation of a run returns ok, both files it
\* created are in the archive after the run: its sweep deletes neither; so
\* after a changing action that succeeded the archive holds the OMO config
\* as it was before the change
SweepSparesOwnBackups ==
    [][ (now' = now /\ "backup-ok" \in SeqToSet(last'.events))
        => /\ OmoBackupNow \in ArchiveNames(archive')
           /\ OcBackupNow \in ArchiveNames(archive')
           /\ (last'.action \in MutatingActions /\ last'.report.status = "success")
              => ArchiveFile(archive', OmoBackupNow).doc = omoFile.doc
      ]_vars

\* the timestamp in the name of a backup file
StampOf(name) ==
    LET prefix == IF startsWith(name, "omo-backup-") THEN "omo-backup-" ELSE "opencode-backup-"
    IN SubSeq(name, Len(prefix) + 1, Len(prefix) + Len(createTimestamp(0, 0)))

\* C22: the list shown by restore and compare has at most ListLimit names,
\* all of them names of backup files of the archive, the more recently
\* created before the less recently created whatever their kind, so that
\* index 1 is a backup of the latest backup operation
ListingIsNewestFirst ==
    LET listed == listBackups(archive, ListLimit)
    IN /\ Len(listed) <= ListLimit
       /\ \A i \in 1..Len(listed) : IsBackupName(listed[i]) /\ listed[i] \in ArchiveNames(archive)
       /\ \A i, j \in 1..Len(listed) :
              i < j => ~StrLess(StampOf(listed[i]), StampOf(listed[j]))
       /\ (listed # <<>> /\ recent # <<>>) => StampOf(listed[1]) = StampOf(recent[1])

\* C23: the timestamp of a backup operation is greater, as a string, than
\* the timestamp of every backup operation made in an earlier second, in
\* every time zone of the host
TimestampsSortChronologically ==
    [][ (now' = now /\ "backup-ok" \in SeqToSet(last'.events))
        => \A earlier \in stamps :
               \/ earlier = createTimestamp(now, tz)
               \/ StrLess(earlier, createTimestamp(now, tz)) ]_vars

\* deep equality of two values: objects with the same keys and deep-equal
\* values under them, in whatever order the keys stand
RECURSIVE DeepEqual(_, _)
DeepEqual(a, b) ==
    IF a.t = "object" /\ b.t = "object"
    THEN /\ ObjKeys(a.o) = ObjKeys(b.o)
         /\ \A k \in ObjKeys(a.o) : DeepEqual(ObjGet(a.o, k), ObjGet(b.o, k))
    ELSE a = b

\* the entries of a section of a document (none when it has no such section)
EntriesOf(doc, section) ==
    IF ObjHas(doc, section) THEN ObjGet(doc, section).o ELSE EmptyObj

\* the reference diff of a section: the shown diff lists exactly the keys
\* added, removed and changed
IsReferenceDiff(shown, live, backup) ==
    /\ SeqToSet(shown.added) = ObjKeys(live) \ ObjKeys(backup)
    /\ SeqToSet(shown.removed) = ObjKeys(backup) \ ObjKeys(live)
    /\ SeqToSet(shown.changed)
         = {k \in ObjKeys(live) \cap ObjKeys(backup) :
                ~DeepEqual(ObjGet(live, k), ObjGet(backup, k))}

\* C24: compare-backup with a valid index on an OMO backup reports the
\* reference diff of the agents and of the categories between the live
\* config and the backup, and shows the disabled hooks exactly when the
\* two sets of disabled hooks differ; an index outside the list is rejected
CompareShowsReferenceDiff ==
    (last.action = "compare-backup" /\ IsSome(last.eff.backupIndex)
       /\ last.report.code # "load")
    => LET listed == listBackups(archive, ListLimit)
           idx == last.eff.backupIndex[1]
       IN IF idx < 1 \/ idx > Len(listed)
          THEN last.report.status = "error" /\ last.report.code = "invalid-index"
          ELSE (startsWith(listed[idx], "omo-backup-") /\ last.report.status = "listing")
               => LET backup == ArchiveFile(archive, listed[idx]).doc
                      shown == last.report.data
                  IN /\ IsReferenceDiff(shown.agents, EntriesOf(omoFile.doc, "agents"),
                                        EntriesOf(backup, "agents"))
                     /\ IsReferenceDiff(shown.categories,
                                        EntriesOf(omoFile.doc, "categories"),
                                        EntriesOf(backup, "categories"))
                     /\ shown.disabled # <<>>
                          <=> SeqToSet(DisabledIn(omoFile))
                                # SeqToSet(DisabledHooks(backup))

EntryActions == {"add-agent", "modify-agent", "add-category", "modify-category"}

\* the name and the section a run of an add or modify request is about
EntryNameOf(run) ==
    IF run.action \in {"add-agent", "modify-agent"} THEN run.eff.agentName
    ELSE run.eff.categoryName

EntrySectionOf(run) ==
    IF run.action \in {"add-agent", "modify-agent"} THEN "agents" ELSE "categories"

\* the entry a run was about, as the config file holds it
StoredEntry(file, run) == ObjGet(Section(file.doc, EntrySectionOf(run)), EntryNameOf(run)[1]).o

\* an entry with its prompt text, when it is not empty, replaced by the tag
\* that tells its length
WithPromptTag(entry) ==
    [i \in 1..Len(entry) |->
        IF entry[i].k = "prompt_append" /\ entry[i].v.t = "string" /\ entry[i].v.s # ""
        THEN [k |-> "prompt_append", v |-> JRedacted(Len(entry[i].v.s))]
        ELSE entry[i]]

DebuggerRequest == "add a new agent called debugger with model opencode/gpt-5.2"

\* C25: the success report of add-agent, modify-agent, add-category and
\* modify-category shows the stored entry with a non-empty prompt_append
\* replaced by the tag of its length, an empty one shown as the empty
\* string and none shown when none is stored; the request to add an agent
\* called debugger with a model makes a backup, stores the entry with the
\* model alone and reports no tag
SuccessReportRedactsPrompt ==
    [][ (last'.action \in EntryActions /\ last'.report.status = "success"
           /\ ObjHas(Section(omoFile'.doc, EntrySectionOf(last')), EntryNameOf(last')[1]))
        => /\ last'.report.data = WithPromptTag(StoredEntry(omoFile', last'))
           /\ \A i \in 1..Len(last'.report.data) :
                  last'.report.data[i].k = "prompt_append"
                  => \/ last'.report.data[i].v = JStr("")
                     \/ last'.report.data[i].v.t = "redacted"
           /\ last'.request = DebuggerRequest
              => /\ "backup-ok" \in SeqToSet(last'.events)
                 /\ StoredEntry(omoFile', last') = Model("opencode/gpt-5.2")
                 /\ \A i \in 1..Len(last'.report.data) :
                        last'.report.data[i].v.t # "redacted" ]_vars

\* an entry was reported with the tag for its prompt
ReportedPromptTag ==
    /\ last.action \in EntryActions
    /\ last.report.status = "success"
    /\ \E i \in 1..Len(last.report.data) :
           last.report.data[i] = [k |-> "prompt_append", v |-> JRedacted(Len("be brief"))]

\* the words of a request in their order
RECURSIVE WordSeqFrom(_, _, _)
WordSeqFrom(request, from, to) ==
    IF to > Len(request)
    THEN IF from > Len(request) THEN <<>> ELSE <<SubSeq(request, from, Len(request))>>
    ELSE IF Ch(request, to) = " "
    THEN (IF from < to THEN <<SubSeq(request, from, to - 1)>> ELSE <<>>)
         \o WordSeqFrom(request, to + 1, to + 1)
    ELSE WordSeqFrom(request, from, to + 1)

\* the word of a request that stands just before the given word, when the
\* request has words on both sides of it and says neither `named' nor `called'
WordBefore(run, word) ==
    LET words == WordSeqFrom(run.request, 1, 1)
        at == {i \in 2..(Len(words) - 1) : words[i] = word}
    IN IF at = {} \/ "named" \in SeqToSet(words) \/ "called" \in SeqToSet(words)
       THEN None
       ELSE Some(words[(CHOOSE i \in at : \A j \in at : i <= j) - 1])

\* C26: a request `<verb> X agent <more words>' that says neither `named'
\* nor `called' names the agent X, and likewise for a category: never the
\* word that follows `agent' or `category'
NameBeforeEntityWord ==
    (last.action \in EntryActions /\ last.request # "")
    => /\ IsSome(WordBefore(last, "agent"))
          => last.eff.agentName = Some(WordBefore(last, "agent")[1])
       /\ IsSome(WordBefore(last, "category"))
          => last.eff.categoryName = Some(WordBefore(last, "category")[1])

\* the fields a run of an add request supplied
SuppliedTo(run) ==
    LET dataOpt == IF run.action = "add-agent" THEN run.eff.agentData
                   ELSE run.eff.categoryData
        fields == IF run.action = "add-agent" THEN AgentFields ELSE CategoryFields
        data == IF IsSome(dataOpt) THEN dataOpt[1] ELSE EmptyObj
    IN SelectSeq(data, LAMBDA e : e.k \in SeqToSet(fields) /\ e.v # Undefined)

\* C27: a successful add-agent or add-category stores under the name an
\* entry of exactly the fields supplied in the request, whether or not an
\* entry of that name was there: no earlier field of it survives
AddReplacesWholeEntry ==
    [][ (last'.action \in {"add-agent", "add-category"} /\ last'.report.status = "success")
        => LET stored == StoredEntry(omoFile', last')
               supplied == SuppliedTo(last')
           IN /\ ObjKeys(stored) = ObjKeys(supplied)
              /\ \A k \in ObjKeys(stored) : ObjGet(stored, k) = ObjGet(supplied, k) ]_vars

\* an agent that had a permission and tools was added again
AddedOverExistingAgent ==
    /\ last.action = "add-agent"
    /\ last.report.status = "success"
    /\ OmoBackupNow \in ArchiveNames(archive)
    /\ LET before == ObjGet(Section(ArchiveFile(archive, OmoBackupNow).doc, "agents"),
                            EntryNameOf(last)[1])
       IN /\ before.t = "object"
          /\ {"permission", "tools"} \subseteq ObjKeys(before.o)
    /\ ObjKeys(StoredEntry(omoFile, last)) = {"model", "prompt_append"}

\* a document without its disabled_hooks
OtherParts(doc) == SelectSeq(doc, LAMBDA e : e.k # "disabled_hooks")

\* C28: a successful disable-hook of a known hook that was not disabled,
\* followed by a successful enable-hook of the same hook, leaves
\* disabled_hooks with the members it had before the two, in their order,
\* and every other part of the OMO config as it was (the config before the
\* two is the one the disable-hook run backed up)
DisableThenEnableRestores ==
    [][ ( /\ last.action = "disable-hook" /\ last.report.status = "success"
          /\ "backup-ok" \in SeqToSet(last.events)
          /\ HookOf(last) \in KnownHookSet
          /\ HookOf(last) \notin SeqToSet(DisabledHooks(ArchiveFile(archive, OmoBackupNow).doc))
          /\ last'.action = "enable-hook" /\ last'.report.status = "success"
          /\ HookOf(last') = HookOf(last) )
        => LET before == ArchiveFile(archive, OmoBackupNow).doc
           IN /\ DisabledIn(omoFile') = DisabledHooks(before)
              /\ OtherParts(omoFile'.doc) = OtherParts(before) ]_vars

\* comment-checker was disabled and then enabled again
EnabledAfterDisable ==
    /\ last.action = "enable-hook"
    /\ last.report.status = "success"
    /\ HookOf(last) = "comment-checker"
    /\ OmoBackupNow \in ArchiveNames(archive)
    /\ DisabledHooks(ArchiveFile(archive, OmoBackupNow).doc) = <<"think-mode", "comment-checker">>
    /\ DisabledIn(omoFile) = <<"think-mode">>

NoDuplicates(q) == \A i, j \in 1..Len(q) : q[i] = q[j] => i = j

\* C29: a run of disable-hook or enable-hook on a disabled_hooks list
\* without duplicates leaves it without duplicates, adds to it no name
\* outside KNOWN_HOOKS, and a successful enable-hook leaves no occurrence of
\* its hook in the list
HookListStaysWellFormed ==
    [][ last'.action \in {"disable-hook", "enable-hook"}
        => /\ NoDuplicates(DisabledIn(omoFile)) => NoDuplicates(DisabledIn(omoFile'))
           /\ SeqToSet(DisabledIn(omoFile')) \ SeqToSet(DisabledIn(omoFile)) \subseteq KnownHookSet
           /\ (last'.action = "enable-hook" /\ last'.report.status = "success")
              => HookOf(last') \notin SeqToSet(DisabledIn(omoFile')) ]_vars

\* a hook was enabled out of a list that a disable-hook had made longer
EnabledOutOfLongerList ==
    /\ last.action = "enable-hook"
    /\ last.report.status = "success"
    /\ HookOf(last) = "think-mode"
    /\ DisabledIn(omoFile) = <<"legacy-hook", "comment-checker">>

\* the backup a restore-backup run was asked for, as the run listed it
\* (none when the index is missing or outside the list)
ChosenBackup(arch, run) ==
    LET listed == listBackups(arch, ListLimit)
    IN IF IsSome(run.eff.backupIndex) /\ run.eff.backupIndex[1] \in 1..Len(listed)
       THEN Some(listed[run.eff.backupIndex[1]])
       ELSE None

\* C30: the OpenCode config file is written only by a restore-backup of an
\* opencode-backup-* file: add and modify of an agent or a category,
\* disable-hook, enable-hook and the restore of an omo-backup-* file leave
\* it unchanged, and the restore of an opencode-backup-* file leaves the OMO
\* config file unchanged
OnlyOpenCodeRestoreWritesOpenCode ==
    [][ LET chosen == ChosenBackup(archive, last')
            restoresOc == /\ last'.action = "restore-backup"
                          /\ IsSome(chosen)
                          /\ startsWith(chosen[1], "opencode-backup-")
        IN /\ ocFile' # ocFile => restoresOc
           /\ last'.action \in EntryActions \cup {"disable-hook", "enable-hook"}
              => ocFile' = ocFile
           /\ (last'.action = "restore-backup" /\ ~restoresOc) => ocFile' = ocFile
           /\ restoresOc => omoFile' = omoFile ]_vars

\* the OpenCode config was restored while the OMO config stayed as changed
RestoredOpenCodeOnly ==
    /\ last.action = "restore-backup"
    /\ last.report.status = "success"
    /\ startsWith(last.report.data, "opencode-backup-")
    /\ "write:oc" \in SeqToSet(last.events)
    /\ omoFile.doc # OmoDocA
    /\ ocFile.doc = OcDocA

=============================================================================
